---- MODULE Spec2Model ----
(***************************************************************************)
(* A model of the retire-server session store (tools/lib/session_store.py) *)
(* and of the chat driver built on it (tools/lib/chat_cli.py).             *)
(*                                                                         *)
(* The file system under <base>/sessions is modelled by                    *)
(*   index  - the content of sessions/index.json (a list of records),      *)
(*   dirs   - the session directories that exist,                          *)
(*   histf  - per id, the history.json document (NoFile when absent),      *)
(*   metaf  - per id, the metadata.json document,                          *)
(*   logf   - per id and log name, the lines of a *.jsonl log.             *)
(* A document is an option value: <<>> is "no such file", <<c>> is a file  *)
(* whose parsed content is c.                                              *)
(*                                                                         *)
(* Environment assumption: uuid.uuid4() never returns the same value       *)
(* twice (issued is the set of values it has returned), and the clock      *)
(* behind datetime.now() does not run backwards.                           *)
(***************************************************************************)
EXTENDS Integers, Sequences, FiniteSets, TLC

\* ------------------------------------------------------------------------
\* Bounds of the model
\* ------------------------------------------------------------------------
MaxTime == 1
MaxLog == 1
MaxHist == 3
MaxTurns == 2
MaxLedger == 2

\* Session ids: the values uuid4() can return and the ids a caller can pass.
IDs == {"s1", "s2"}
NoId == "-"
\* Processes that use one store concurrently.
Procs == {"p", "q"}
Times == 0..MaxTime
NoDescription == "None"
Descriptions == {"d"}
INFORMATION_FILENAME == "information.jsonl"
COMPLETENESS_FILENAME == "completeness.jsonl"
\* the log files a session directory can hold
LogFiles == {INFORMATION_FILENAME, COMPLETENESS_FILENAME}
LogNames == {"information.jsonl"}
Payloads == {"fact"}

VARIABLES
    index,      \* sessions/index.json : Seq of SessionRecord
    dirs,       \* ids whose directory sessions/<id> exists
    histf,      \* [IDs -> option of history]
    metaf,      \* [IDs -> option of metadata]
    logf,       \* [IDs -> [LogFiles -> option of Seq(line)]]
    issued,     \* values uuid4() has returned so far
    ret,        \* outcome of the last completed store operation
    pc,         \* [Procs -> the statement a process is at inside an operation]
    loc,        \* [Procs -> the local variables of that operation]
    drv,        \* the chat driver process: where it is and what it holds in memory
    now         \* the latest value datetime.now() has returned

storeVars == <<index, dirs, histf, metaf, logf, issued>>
procVars == <<pc, loc>>
vars == <<index, dirs, histf, metaf, logf, issued, ret, pc, loc, drv, now>>

\* ------------------------------------------------------------------------
\* Documents
\* ------------------------------------------------------------------------
NoFile == << >>
File(c) == << c >>
FileExists(f) == f # NoFile
Content(f) == f[1]

EmptyHistory == << >>
EmptyMeta == [k \in {} |-> 0]

Entry(role, content, ts) == [role |-> role, content |-> content, timestamp |-> ts]
SampleHistory == << Entry("user", "hi", 0) >>
SampleMeta == [k \in {"last_response"} |-> "hello"]

SessionRecord(id, created_at, description, is_current) ==
    [id |-> id, created_at |-> created_at, description |-> description,
     is_current |-> is_current]

Result(op, id, status) == [op |-> op, id |-> id, status |-> status]
\* what a query or a parser hands back: a status and, when "ok", a value
Returned(status, value) == [status |-> status, value |-> value]

Locals(op, id, record, sessions) ==
    [op |-> op, id |-> id, record |-> record, sessions |-> sessions]
NoLocals == Locals("none", NoId, << >>, << >>)

\* datetime.now(timezone.utc): a value not before the previous one
Tick(ts) == ts \in Times /\ ts >= now /\ now' = ts

IndexIds(sessions) == {sessions[i].id : i \in DOMAIN sessions}

\* a filter that also resets the current flag of the records it keeps
RECURSIVE SelectRecords_resetCurrent(_, _)
SelectRecords_resetCurrent(sessions, drop) ==
    IF sessions = << >> THEN << >>
    ELSE IF Head(sessions).id = drop
         THEN SelectRecords_resetCurrent(Tail(sessions), drop)
         ELSE << [Head(sessions) EXCEPT !.is_current = FALSE] >>
              \o SelectRecords_resetCurrent(Tail(sessions), drop)

\* delete_session, line 126: the records whose id differs, in index order
RECURSIVE SelectRecords(_, _)
SelectRecords(sessions, drop) ==
    IF sessions = << >> THEN << >>
    ELSE IF Head(sessions).id = drop THEN SelectRecords(Tail(sessions), drop)
         ELSE << Head(sessions) >> \o SelectRecords(Tail(sessions), drop)

\* a loop that sets the flag of the target and leaves the other flags alone
MarkRecords_keepOthers(sessions, session_id) ==
    [i \in DOMAIN sessions |->
        [sessions[i] EXCEPT
            !.is_current = (sessions[i].is_current \/ sessions[i].id = session_id)]]

\* mark_current, lines 92-96: the loop over the records read from the index
MarkRecords(sessions, session_id) ==
    [i \in DOMAIN sessions |->
        [sessions[i] EXCEPT !.is_current = (sessions[i].id = session_id)]]

\* update_description, lines 111-116: the first matching record only (break)
DescribeRecords(sessions, session_id, description) ==
    LET hits == {i \in DOMAIN sessions : sessions[i].id = session_id}
        first == CHOOSE i \in hits : \A j \in hits : i <= j
    IN  IF hits = {} THEN sessions
        ELSE [sessions EXCEPT ![first].description = description]

\* a write that adds the entries to those the file holds
WriteHistoryFile_extend(id, h) ==
    /\ dirs' = dirs \cup {id}
    /\ histf' = [histf EXCEPT ![id] =
                    IF FileExists(histf[id]) THEN File(Content(histf[id]) \o h)
                    ELSE File(h)]

\* _write_json_file: path.parent.mkdir(parents=True, exist_ok=True), then the
\* document is replaced. The documents of the model are json values (lists,
\* dicts with string keys, strings, integers), which json.load gives back as
\* json.dump was given them: a file holds the value its text denotes.
WriteHistoryFile(id, h) ==
    /\ dirs' = dirs \cup {id}
    /\ histf' = [histf EXCEPT ![id] = File(h)]

WriteMetadataFile(id, m) ==
    /\ dirs' = dirs \cup {id}
    /\ metaf' = [metaf EXCEPT ![id] = File(m)]

\* ------------------------------------------------------------------------
\* Text, replies and configuration of the chat driver (chat_cli.py)
\* ------------------------------------------------------------------------
None == << >>
Some(v) == << v >>

Whitespace == {" ", "\n"}
UserInputs == { <<"h", "i">> }
NoResponse == << "[No response]" >>
ErrorMessages == { "boom" }
Prompts == { <<"P1">>, <<"P2">> }
\* content of the file a --system-prompt-file argument names
PromptFileText == <<"P1">>
PromptFilePath == "/prompt.txt"

TextBlock(t) == [kind |-> "text", text |-> t]
ToolUseBlock == [kind |-> "toolUse", text |-> << >>]

\* what the model collaborator can return: message blocks, stop reason, usage
Reply(message, stop_reason, usage) ==
    [message |-> message, stop_reason |-> stop_reason, usage |-> usage]
Replies ==
    { Reply(<< TextBlock(<<"o", "k">>) >>, "end_turn",
            Some([inputTokens |-> 1, outputTokens |-> 2, totalTokens |-> 3])),
      Reply(<< ToolUseBlock >>, "tool_use", None) }
NoReply == Reply(<< >>, "", None)

RECURSIVE JoinLines(_)
JoinLines(chunks) ==
    IF chunks = << >> THEN << >>
    ELSE IF Len(chunks) = 1 THEN chunks[1]
         ELSE chunks[1] \o << "\n" >> \o JoinLines(Tail(chunks))

RECURSIVE LStrip(_)
LStrip(t) == IF t # << >> /\ Head(t) \in Whitespace THEN LStrip(Tail(t)) ELSE t

RECURSIVE RStrip(_)
RStrip(t) ==
    IF t # << >> /\ t[Len(t)] \in Whitespace THEN RStrip(SubSeq(t, 1, Len(t) - 1)) ELSE t

Strip(t) == RStrip(LStrip(t))

RECURSIVE TextChunks(_)
TextChunks(blocks) ==
    IF blocks = << >> THEN << >>
    ELSE IF Head(blocks).kind = "text"
         THEN << Head(blocks).text >> \o TextChunks(Tail(blocks))
         ELSE TextChunks(Tail(blocks))

RECURSIVE Concat(_)
Concat(chunks) ==
    IF chunks = << >> THEN << >> ELSE Head(chunks) \o Concat(Tail(chunks))

\* the text blocks run together without line breaks
extract_text_unjoined(message) == Strip(Concat(TextChunks(message)))

\* extract_text_from_message, lines 225-234
extract_text_from_message(message) == Strip(JoinLines(TextChunks(message)))

\* execute_turn, line 374
ResponseText(result) ==
    IF extract_text_from_message(result.message) # << >>
    THEN extract_text_from_message(result.message)
    ELSE NoResponse

\* Tool-invocation and tool-result blocks of a message, as the tests build them
ToolUseBlockOf(toolUseId, name, input) ==
    [kind |-> "toolUse", toolUseId |-> toolUseId, name |-> name, input |-> input]
ToolResultBlock(toolUseId, status, content) ==
    [kind |-> "toolResult", toolUseId |-> toolUseId, status |-> status,
     content |-> content]

\* Tool-event extraction. The function the tests call,
\* collect_tool_events_from_messages, is not part of chat_cli.py as given; it
\* is written here from section 4.4 of the specification.
SUMMARY_LIMIT == 200
ELLIPSIS == << ".", ".", "." >>

AllBlocks(messages) == Concat(messages)

HasInvocationId(b) == "toolUseId" \in DOMAIN b

\* the tool-result blocks that answer invocation b
ResultsOf(b, blocks) ==
    SelectSeq(blocks, LAMBDA r : r.kind = "toolResult" /\ r.toolUseId = b.toolUseId)

\* a summary that is cut only when it would exceed limit plus marker
ResultSummary_lateCut(content) ==
    LET text == Concat(TextChunks(content))
    IN  IF Len(text) <= SUMMARY_LIMIT + Len(ELLIPSIS) + 1 THEN text
        ELSE SubSeq(text, 1, SUMMARY_LIMIT) \o ELLIPSIS

ResultSummary(content) ==
    LET text == Concat(TextChunks(content))
    IN  IF Len(text) <= SUMMARY_LIMIT THEN text
        ELSE SubSeq(text, 1, SUMMARY_LIMIT) \o ELLIPSIS

ToolEvent(use, result) ==
    [name |-> use.name, arguments |-> use.input, status |-> result.status,
     result_summary |-> ResultSummary(result.content)]

RECURSIVE EventsOf(_, _)
EventsOf(uses, blocks) ==
    IF uses = << >> THEN << >>
    ELSE LET b == Head(uses)
             results == ResultsOf(b, blocks)
         IN  (IF results # << >> THEN << ToolEvent(b, Head(results)) >> ELSE << >>)
             \o EventsOf(Tail(uses), blocks)

collect_tool_events_from_messages(messages) ==
    LET blocks == AllBlocks(messages)
        uses == SelectSeq(blocks, LAMBDA b : b.kind = "toolUse" /\ HasInvocationId(b))
    IN  EventsOf(uses, blocks)

\* metadata is a dict: a function whose domain is the set of keys present
MHas(m, k) == k \in DOMAIN m
MSet(m, k, v) == [x \in DOMAIN m \cup {k} |-> IF x = k THEN v ELSE m[x]]
\* dict.get(k): None when the key is absent
MGet(m, k) == IF MHas(m, k) THEN Some(m[k]) ELSE None
\* dict.setdefault(k, []): the list under k
MList(m, k) == IF MHas(m, k) THEN m[k] ELSE << >>

SessionConfig(model, window_size, should_truncate_results) ==
    [model |-> model, window_size |-> window_size,
     should_truncate_results |-> should_truncate_results]
\* the content of config.yaml
FileConfig == SessionConfig("gpt", 2, TRUE)
WindowOverrides == {None, Some(0), Some(1)}
TruncateOverrides == {None, Some("false"), Some("maybe")}

parse_bool(value) ==
    IF value = None THEN Returned("ok", None)
    ELSE IF value[1] \in {"1", "true", "t", "yes", "y"} THEN Returned("ok", Some(TRUE))
    ELSE IF value[1] \in {"0", "false", "f", "no", "n"} THEN Returned("ok", Some(FALSE))
    ELSE Returned("ValueError", None)

apply_overrides(base, model, window_size, should_truncate_results) ==
    SessionConfig(IF model # None /\ model[1] # "" THEN model[1] ELSE base.model,
                  IF window_size # None THEN window_size[1] ELSE base.window_size,
                  IF should_truncate_results # None THEN should_truncate_results[1]
                  ELSE base.should_truncate_results)

\* a driver that never finds a configuration in the metadata
session_config_from_metadata_none(m) == None

\* config_loader.session_config_from_metadata, lines 88-98
session_config_from_metadata(m) == IF MHas(m, "config") THEN Some(m["config"]) ELSE None

\* a slice taken from the front of the history
LastEntries_head(h, n) == IF Len(h) <= n THEN h ELSE SubSeq(h, 1, n)

\* history[-n:] for n > 0
LastEntries(h, n) == IF Len(h) <= n THEN h ELSE SubSeq(h, Len(h) - n + 1, Len(h))

\* a window that is applied whatever the truncate flag says
prepare_messages_alwaysTrim(h, window_size, should_truncate_results) ==
    IF h = << >> THEN << >>
    ELSE IF window_size <= 0 THEN h
    ELSE LastEntries(h, window_size)

\* SlidingWindowConversationManager.prepare_messages, lines 23-33
prepare_messages(h, window_size, should_truncate_results) ==
    IF h = << >> THEN << >>
    ELSE IF window_size <= 0 THEN h
    ELSE IF ~should_truncate_results THEN h
    ELSE LastEntries(h, window_size)

IsPrefix(a, b) == Len(a) <= Len(b) /\ SubSeq(b, 1, Len(a)) = a

\* the driver process: position and memory
Driver(at, new_session, single, session_id, config, mem_history, mem_metadata, user_entry, result, error, response, status) ==
    [pc |-> at, new_session |-> new_session, single |-> single,
     verbose |-> FALSE, printed |-> << >>, environ |-> None,
     session_id |-> session_id, config |-> config, history |-> mem_history,
     metadata |-> mem_metadata, user_entry |-> user_entry, result |-> result,
     error |-> error, response |-> response, status |-> status]

NoEntry == Entry("", << >>, 0)

\* the process is not running; status is how it ended: the code main returned
\* ("0", "1"), the exception that left main, or "killed"
Exited(status) ==
    Driver("stopped", FALSE, FALSE, NoId, FileConfig, << >>, EmptyMeta,
           NoEntry, NoReply, "", None, status)

Exit(status) == drv' = Exited(status)

\* ------------------------------------------------------------------------
\* Store operations, each run to completion by one process
\* ------------------------------------------------------------------------
Init ==
    /\ index = << >>
    /\ dirs = {}
    /\ histf = [i \in IDs |-> NoFile]
    /\ metaf = [i \in IDs |-> NoFile]
    /\ logf = [i \in IDs |-> [n \in LogFiles |-> NoFile]]
    /\ issued = {}
    /\ ret = Result("init", NoId, "ok")
    /\ pc = [p \in Procs |-> "idle"]
    /\ loc = [p \in Procs |-> NoLocals]
    /\ drv = Exited("0")
    /\ now = 0

\* Queries read the store and write nothing: they are operators over the state.
list_sessions == index

\* create_session with mkdir(exist_ok=True): an existing directory is reused
create_session_existOk(description) ==
    \E session_id \in IDs \ issued, created_at \in Times :
        /\ Tick(created_at)
        /\ issued' = issued \cup {session_id}
        /\ dirs' = dirs \cup {session_id}
        /\ histf' = [histf EXCEPT ![session_id] = File(EmptyHistory)]
        /\ metaf' = [metaf EXCEPT ![session_id] = File(EmptyMeta)]
        /\ index' = Append(index,
                           SessionRecord(session_id, created_at, description, FALSE))
        /\ ret' = Result("create_session", session_id, "ok")
        /\ UNCHANGED logf

\* create_session, lines 69-85
create_session(description) ==
    \E session_id \in IDs \ issued, created_at \in Times :
        /\ Tick(created_at)
        /\ issued' = issued \cup {session_id}
        /\ IF session_id \in dirs
           THEN /\ ret' = Result("create_session", session_id, "FileExistsError")
                /\ UNCHANGED <<index, dirs, histf, metaf, logf>>
           ELSE /\ dirs' = dirs \cup {session_id}
                /\ histf' = [histf EXCEPT ![session_id] = File(EmptyHistory)]
                /\ metaf' = [metaf EXCEPT ![session_id] = File(EmptyMeta)]
                /\ index' = Append(index,
                                   SessionRecord(session_id, created_at, description, FALSE))
                /\ ret' = Result("create_session", session_id, "ok")
                /\ UNCHANGED logf

session_exists(session_id) == session_id \in dirs

\* a mark_current that writes the records of its loop before it looks at the
\* outcome
mark_current_writeFirst(session_id) ==
    LET sessions == MarkRecords(index, session_id)
        updated == \E i \in DOMAIN sessions : sessions[i].is_current
    IN  /\ index' = sessions
        /\ ret' = Result("mark_current", session_id,
                         IF updated THEN "ok" ELSE "SessionNotFoundError")
        /\ UNCHANGED <<dirs, histf, metaf, logf, issued>>

\* mark_current, lines 90-99
mark_current(session_id) ==
    LET sessions == MarkRecords(index, session_id)
        updated == \E i \in DOMAIN sessions : sessions[i].is_current
    IN  IF ~updated
        THEN /\ ret' = Result("mark_current", session_id, "SessionNotFoundError")
             /\ UNCHANGED storeVars
        ELSE /\ index' = sessions
             /\ ret' = Result("mark_current", session_id, "ok")
             /\ UNCHANGED <<dirs, histf, metaf, logf, issued>>

\* the first record marked current, as an option value
get_current_session ==
    LET hits == {i \in DOMAIN index : index[i].is_current}
    IN  IF hits = {} THEN << >>
        ELSE << index[CHOOSE i \in hits : \A j \in hits : i <= j] >>

update_description(session_id, description) ==
    LET changed == session_id \in IndexIds(index)
    IN  IF ~changed
        THEN /\ ret' = Result("update_description", session_id, "SessionNotFoundError")
             /\ UNCHANGED storeVars
        ELSE /\ index' = DescribeRecords(index, session_id, description)
             /\ ret' = Result("update_description", session_id, "ok")
             /\ UNCHANGED <<dirs, histf, metaf, logf, issued>>

delete_session(session_id) ==
    IF session_id \notin dirs
    THEN /\ ret' = Result("delete_session", session_id, "SessionNotFoundError")
         /\ UNCHANGED storeVars
    ELSE /\ dirs' = dirs \ {session_id}
         /\ histf' = [histf EXCEPT ![session_id] = NoFile]
         /\ metaf' = [metaf EXCEPT ![session_id] = NoFile]
         /\ logf' = [logf EXCEPT ![session_id] = [n \in LogFiles |-> NoFile]]
         /\ index' = SelectRecords(index, session_id)
         /\ ret' = Result("delete_session", session_id, "ok")
         /\ UNCHANGED issued

\* _read_json_file: a missing file raises SessionStoreError
read_history(session_id) ==
    IF FileExists(histf[session_id])
    THEN Returned("ok", Content(histf[session_id]))
    ELSE Returned("SessionStoreError", << >>)

write_history(session_id, history) ==
    /\ WriteHistoryFile(session_id, history)
    /\ ret' = Result("write_history", session_id, "ok")
    /\ UNCHANGED <<index, metaf, logf, issued>>

read_metadata(session_id) ==
    IF FileExists(metaf[session_id])
    THEN Returned("ok", Content(metaf[session_id]))
    ELSE Returned("SessionStoreError", << >>)

write_metadata(session_id, data) ==
    /\ WriteMetadataFile(session_id, data)
    /\ ret' = Result("write_metadata", session_id, "ok")
    /\ UNCHANGED <<index, histf, logf, issued>>

append_jsonl(session_id, filename, payload) ==
    LET old == IF FileExists(logf[session_id][filename])
               THEN Content(logf[session_id][filename]) ELSE << >>
    IN  /\ Len(old) < MaxLog
        /\ dirs' = dirs \cup {session_id}
        /\ logf' = [logf EXCEPT ![session_id][filename] = File(Append(old, payload))]
        /\ ret' = Result("append_jsonl", session_id, "ok")
        /\ UNCHANGED <<index, histf, metaf, issued>>

\* a missing log file reads as the empty list
read_jsonl(session_id, filename) ==
    IF FileExists(logf[session_id][filename])
    THEN Returned("ok", Content(logf[session_id][filename]))
    ELSE Returned("ok", << >>)

\* ------------------------------------------------------------------------
\* Topic Ledger (completeness_common.py, completeness_monitor.py)
\* ------------------------------------------------------------------------
CANONICAL_TOPICS ==
    << "income_cash_flow", "healthcare_medicare", "housing_geography",
       "tax_efficiency_rmds", "longevity_inflation", "long_term_care",
       "lifestyle_purpose", "estate_planning" >>
CanonicalTopics == {CANONICAL_TOPICS[i] : i \in DOMAIN CANONICAL_TOPICS}

\* topics a caller passes: two canonical ones and one that is not
TopicInputs == {"income_cash_flow", "estate_planning", "crypto"}
FactValues == {"Retire at 55"}

\* a JSON number with its Python type
IntScore(v) == [type |-> "int", value |-> v]
FloatScore(v) == [type |-> "float", value |-> v]

ScoreEntry(topic, score, reason) == [topic |-> topic, score |-> score, reason |-> reason]
\* entries a caller passes: three valid ones, and one for each way of being
\* invalid (topic, score above, score below, score not an int)
EntryInputs ==
    {ScoreEntry("income_cash_flow", IntScore(0), None),
     ScoreEntry("income_cash_flow", IntScore(100), None),
     ScoreEntry("estate_planning", IntScore(100), None),
     ScoreEntry("crypto", IntScore(100), None),
     ScoreEntry("income_cash_flow", IntScore(101), None),
     ScoreEntry("income_cash_flow", IntScore(-1), None),
     ScoreEntry("income_cash_flow", FloatScore(80), None)}
Batches ==
    {<< >>} \cup {<< e >> : e \in EntryInputs}
            \cup {<< e, f >> : e \in EntryInputs, f \in EntryInputs}
\* the batches used where two sessions and both ledgers are written
LedgerBatches ==
    {<< ScoreEntry("income_cash_flow", IntScore(100), None) >>,
     << ScoreEntry("estate_planning", IntScore(0), None),
        ScoreEntry("income_cash_flow", IntScore(100), None) >>,
     << ScoreEntry("crypto", IntScore(100), None) >>,
     << ScoreEntry("income_cash_flow", IntScore(100), None),
        ScoreEntry("crypto", IntScore(100), None) >>}

\* validate_topic, lines 54-57: does it return (TRUE) or raise ValueError
validate_topic(topic) == topic \in CanonicalTopics

\* line 97: isinstance(score, int) and 0 <= score <= 100
ScoreAccepted(score) == score.type = "int" /\ 0 <= score.value /\ score.value <= 100

LogLines(id, filename) ==
    IF FileExists(logf[id][filename]) THEN Content(logf[id][filename]) ELSE << >>

\* the lines of all logs of all sessions
TotalLines ==
    LET RECURSIVE Sum(_)
        Sum(S) == IF S = {} THEN 0
                  ELSE LET x == CHOOSE y \in S : TRUE
                       IN  Len(LogLines(x[1], x[2])) + Sum(S \ {x})
    IN  Sum(IDs \X LogFiles)

\* an append that opens the log for writing instead of appending
AppendLine_rewrite(session_id, filename, payload) ==
    /\ dirs' = dirs \cup {session_id}
    /\ logf' = [logf EXCEPT ![session_id][filename] = File(<< payload >>)]

\* SessionStore.append_jsonl, lines 146-153: what it does to the files
AppendLine(session_id, filename, payload) ==
    /\ dirs' = dirs \cup {session_id}
    /\ logf' = [logf EXCEPT ![session_id][filename] =
                    File(Append(LogLines(session_id, filename), payload))]

\* _append_jsonl, lines 126-135
append_jsonl_helper(op, session_id, filename, payload) ==
    IF ~session_exists(session_id)
    THEN /\ ret' = Result(op, session_id, "SessionNotFoundError")
         /\ UNCHANGED storeVars
    ELSE /\ AppendLine(session_id, filename, payload)
         /\ ret' = Result(op, session_id, "ok")
         /\ UNCHANGED <<index, histf, metaf, issued>>

\* _read_jsonl, lines 138-142
read_jsonl_helper(session_id, filename) ==
    IF ~session_exists(session_id)
    THEN Returned("SessionNotFoundError", << >>)
    ELSE read_jsonl(session_id, filename)

\* confidences are counted in tenths: 9 is the default 0.9 of line 75
DEFAULT_CONFIDENCE == 9
Confidences == {-1, 0, DEFAULT_CONFIDENCE, 10, 20}

InformationRecord(session_id, topic, value, subtopic, fact_type, created_at) ==
    [session_id |-> session_id, topic |-> topic, value |-> value,
     subtopic |-> subtopic, fact_type |-> fact_type,
     confidence |-> DEFAULT_CONFIDENCE, created_at |-> created_at]

\* the record of lines 74-82 with the confidence the caller gave
RecordWithConfidence(session_id, topic, value, confidence, created_at) ==
    [InformationRecord(session_id, topic, value, None, None, created_at)
        EXCEPT !.confidence = confidence]

\* an append that stores the topic as given
append_information_record_anyTopic(session_id, topic, value, ts) ==
    /\ TotalLines < MaxLedger
    /\ Tick(ts)
    /\ append_jsonl_helper("append_information_record", session_id,
                           INFORMATION_FILENAME,
                           InformationRecord(session_id, topic, value, None, None, ts))

\* append_information_record, lines 64-84
append_information_record(session_id, topic, value, ts) ==
    /\ TotalLines < MaxLedger
    /\ IF ~validate_topic(topic)
       THEN /\ ret' = Result("append_information_record", session_id, "ValueError")
            /\ UNCHANGED <<storeVars, now>>
       ELSE /\ Tick(ts)
            /\ append_jsonl_helper("append_information_record", session_id,
                                   INFORMATION_FILENAME,
                                   InformationRecord(session_id, topic, value, None, None, ts))

\* append_information_record, lines 64-84, called with a confidence
append_information_record_confidence(session_id, topic, value, confidence, ts) ==
    /\ TotalLines < MaxLedger
    /\ IF ~validate_topic(topic)
       THEN /\ ret' = Result("append_information_record", session_id, "ValueError")
            /\ UNCHANGED <<storeVars, now>>
       ELSE /\ Tick(ts)
            /\ append_jsonl_helper("append_information_record", session_id,
                                   INFORMATION_FILENAME,
                                   RecordWithConfidence(session_id, topic, value,
                                                        confidence, ts))

\* information.py, _validate_confidence, lines 10-13
validate_confidence(confidence) == 0 <= confidence /\ confidence <= 10

\* information.py, the information tool, lines 16-35: the confidence is
\* validated while the arguments of the append are evaluated
information(session_id, topic, value, confidence, ts) ==
    /\ TotalLines < MaxLedger
    /\ IF ~validate_confidence(confidence)
       THEN /\ ret' = Result("information", session_id, "ValueError")
            /\ UNCHANGED <<storeVars, now>>
       ELSE IF ~validate_topic(topic)
       THEN /\ ret' = Result("information", session_id, "ValueError")
            /\ UNCHANGED <<storeVars, now>>
       ELSE /\ Tick(ts)
            /\ append_jsonl_helper("information", session_id, INFORMATION_FILENAME,
                                   RecordWithConfidence(session_id, topic, value,
                                                        confidence, ts))

\* a validation that looks at the first entry only
ValidBatch_firstOnly(scores) ==
    scores = << >> \/ (validate_topic(scores[1].topic) /\ ScoreAccepted(scores[1].score))

\* lines 93-99: the validated entries, or the failure of the loop
ValidBatch(scores) ==
    \A i \in DOMAIN scores :
        validate_topic(scores[i].topic) /\ ScoreAccepted(scores[i].score)

CompletenessSnapshot(session_id, scores, created_at) ==
    [session_id |-> session_id, scores |-> scores, created_at |-> created_at]

\* append_completeness_snapshot, lines 87-107
append_completeness_snapshot(session_id, scores, ts) ==
    /\ TotalLines < MaxLedger
    /\ IF ~ValidBatch(scores)
       THEN /\ ret' = Result("append_completeness_snapshot", session_id, "ValueError")
            /\ UNCHANGED <<storeVars, now>>
       ELSE /\ Tick(ts)
            /\ append_jsonl_helper("append_completeness_snapshot", session_id,
                                   COMPLETENESS_FILENAME,
                                   CompletenessSnapshot(session_id, scores, ts))

read_information_records(session_id) ==
    read_jsonl_helper(session_id, INFORMATION_FILENAME)
read_completeness_snapshots(session_id) ==
    read_jsonl_helper(session_id, COMPLETENESS_FILENAME)

\* the entries of all snapshots, oldest first
AllEntries(snapshots) ==
    LET RECURSIVE Flat(_)
        Flat(s) == IF s = << >> THEN << >> ELSE Head(s).scores \o Flat(Tail(s))
    IN  Flat(snapshots)

\* a scan that keeps the first entry it meets for a topic
compute_latest_scores_first(snapshots) ==
    [topic \in CanonicalTopics |->
        LET mine == SelectSeq(AllEntries(snapshots),
                              LAMBDA e : e.topic = topic /\ e.score.type = "int")
        IN  IF mine = << >> THEN None ELSE Some(mine[1])]

\* compute_latest_scores, completeness_monitor.py lines 23-33
compute_latest_scores(snapshots) ==
    [topic \in CanonicalTopics |->
        LET mine == SelectSeq(AllEntries(snapshots),
                              LAMBDA e : e.topic = topic /\ e.score.type = "int")
        IN  IF mine = << >> THEN None ELSE Some(mine[Len(mine)])]

\* The ledger operations of the tools on two sessions, with a clock that
\* advances when a session is created.
NextLedger ==
    \/ create_session(NoDescription) /\ UNCHANGED <<procVars, drv>>
    \/ \E id \in IDs, topic \in TopicInputs, value \in FactValues :
            append_information_record(id, topic, value, now) /\ UNCHANGED <<procVars, drv>>
    \/ \E id \in IDs, scores \in LedgerBatches :
            append_completeness_snapshot(id, scores, now) /\ UNCHANGED <<procVars, drv>>

SpecLedger == Init /\ [][NextLedger]_vars

\* Completeness batches of every shape, valid and invalid, sent to one
\* session and to an id that has none.
NextBatch ==
    \/ index = << >> /\ create_session(NoDescription) /\ UNCHANGED <<procVars, drv>>
    \/ \E id \in IDs, scores \in Batches :
            append_completeness_snapshot(id, scores, now) /\ UNCHANGED <<procVars, drv>>

SpecBatch == Init /\ [][NextBatch]_vars

\* Facts of every confidence, recorded through the tool and through the
\* ledger operation.
NextInfo ==
    \/ create_session(NoDescription) /\ UNCHANGED <<procVars, drv>>
    \/ \E id \in IDs, topic \in TopicInputs, value \in FactValues, c \in Confidences :
            information(id, topic, value, c, now) /\ UNCHANGED <<procVars, drv>>
    \/ \E id \in IDs, topic \in TopicInputs, value \in FactValues, c \in Confidences :
            append_information_record_confidence(id, topic, value, c, now)
                /\ UNCHANGED <<procVars, drv>>

SpecInfo == Init /\ [][NextInfo]_vars

\* The window function on every history of up to MaxHist entries, every
\* window size around that length and both truncate flags, one call and its
\* repetition per run; the outcome of the call is what the caller is left with.
WindowEntries ==
    {Entry("user", "hi", 0), Entry("assistant", "hello", 0), Entry("user", "next", 0)}
RECURSIVE SeqsUpTo(_, _)
SeqsUpTo(S, n) ==
    IF n = 0 THEN {<< >>}
    ELSE SeqsUpTo(S, n - 1) \cup
         {Append(s, e) : s \in {t \in SeqsUpTo(S, n - 1) : Len(t) = n - 1}, e \in S}
Histories == SeqsUpTo(WindowEntries, MaxHist)
WindowSizes == -1..(MaxHist + 1)

View(op, h, first, window_size, should_truncate_results) ==
    [op |-> op, id |-> NoId, status |-> "ok", history |-> h, first |-> first,
     window_size |-> window_size, should_truncate_results |-> should_truncate_results,
     value |-> prepare_messages(first, window_size, should_truncate_results)]

\* manager.prepare_messages(history)
PrepareView(h, window_size, should_truncate_results) ==
    /\ ret.op = "init"
    /\ ret' = View("prepare_messages", h, h, window_size, should_truncate_results)
    /\ UNCHANGED <<storeVars, procVars, drv, now>>

\* manager.prepare_messages(manager.prepare_messages(history))
PrepareAgain ==
    /\ ret.op = "prepare_messages"
    /\ ret' = View("prepare_messages_again", ret.history, ret.value,
                   ret.window_size, ret.should_truncate_results)
    /\ UNCHANGED <<storeVars, procVars, drv, now>>

NextWindow ==
    \/ \E h \in Histories, w \in WindowSizes, t \in BOOLEAN : PrepareView(h, w, t)
    \/ PrepareAgain

SpecWindow == Init /\ [][NextWindow]_vars

\* One process, every operation run to completion.
Next ==
    \/ \E d \in Descriptions \cup {NoDescription} :
            create_session(d) /\ UNCHANGED <<procVars, drv>>
    \/ \E id \in IDs : mark_current(id) /\ UNCHANGED <<procVars, drv, now>>
    \/ \E id \in IDs, d \in Descriptions :
            update_description(id, d) /\ UNCHANGED <<procVars, drv, now>>
    \/ \E id \in IDs : delete_session(id) /\ UNCHANGED <<procVars, drv, now>>
    \/ \E id \in IDs, h \in {EmptyHistory, SampleHistory} :
            write_history(id, h) /\ UNCHANGED <<procVars, drv, now>>
    \/ \E id \in IDs, m \in {EmptyMeta, SampleMeta} :
            write_metadata(id, m) /\ UNCHANGED <<procVars, drv, now>>
    \/ \E id \in IDs, n \in LogNames, p \in Payloads :
            append_jsonl(id, n, p) /\ UNCHANGED <<procVars, drv, now>>

Spec == Init /\ [][Next]_vars

\* ------------------------------------------------------------------------
\* The index-modifying operations run by several processes on one store.
\* A step is one file-system call sequence between two accesses of shared
\* state: each read of index.json and each write of it is a step of its own.
\* ------------------------------------------------------------------------
Goto(p, label, locals) ==
    /\ pc' = [pc EXCEPT ![p] = label]
    /\ loc' = [loc EXCEPT ![p] = locals]
    /\ UNCHANGED <<ret, drv, now>>

\* the operation returns (or raises) to its caller
Finish(p) ==
    /\ pc' = [pc EXCEPT ![p] = "idle"]
    /\ loc' = [loc EXCEPT ![p] = NoLocals]
    /\ UNCHANGED <<ret, drv, now>>

\* create_session, lines 70-79: uuid4, the record, mkdir(exist_ok=False)
CreateMkdir(p, description) ==
    /\ pc[p] = "idle"
    /\ \E session_id \in IDs \ issued, created_at \in Times :
        /\ Tick(created_at)
        /\ issued' = issued \cup {session_id}
        /\ UNCHANGED <<index, histf, metaf, logf, ret, drv>>
        /\ IF session_id \in dirs
           THEN /\ pc' = [pc EXCEPT ![p] = "idle"]
                /\ loc' = [loc EXCEPT ![p] = NoLocals]
                /\ UNCHANGED dirs
           ELSE /\ dirs' = dirs \cup {session_id}
                /\ pc' = [pc EXCEPT ![p] = "create_history"]
                /\ loc' = [loc EXCEPT ![p] =
                        Locals("create_session", session_id,
                               << SessionRecord(session_id, created_at, description, FALSE) >>,
                               << >>)]

\* line 80
CreateHistory(p) ==
    /\ pc[p] = "create_history"
    /\ WriteHistoryFile(loc[p].id, EmptyHistory)
    /\ Goto(p, "create_metadata", loc[p])
    /\ UNCHANGED <<index, metaf, logf, issued>>

\* a create that goes on to the index without having written the metadata
CreateMetadata_skipped(p) ==
    /\ pc[p] = "create_metadata"
    /\ Goto(p, "create_read", loc[p])
    /\ UNCHANGED storeVars

\* line 81
CreateMetadata(p) ==
    /\ pc[p] = "create_metadata"
    /\ WriteMetadataFile(loc[p].id, EmptyMeta)
    /\ Goto(p, "create_read", loc[p])
    /\ UNCHANGED <<index, histf, logf, issued>>

\* lines 82-83
CreateReadIndex(p) ==
    /\ pc[p] = "create_read"
    /\ Goto(p, "create_write", [loc[p] EXCEPT !.sessions = index \o loc[p].record])
    /\ UNCHANGED storeVars

\* lines 84-85
CreateWriteIndex(p) ==
    /\ pc[p] = "create_write"
    /\ index' = loc[p].sessions
    /\ Finish(p)
    /\ UNCHANGED <<dirs, histf, metaf, logf, issued>>

\* mark_current, lines 91-98
MarkReadIndex(p, session_id) ==
    /\ pc[p] = "idle"
    /\ LET sessions == MarkRecords(index, session_id)
           updated == \E i \in DOMAIN sessions : sessions[i].is_current
       IN  IF ~updated
           THEN Finish(p)
           ELSE /\ Goto(p, "mark_write",
                        Locals("mark_current", session_id, << >>, sessions))
    /\ UNCHANGED storeVars

\* line 99
MarkWriteIndex(p) ==
    /\ pc[p] = "mark_write"
    /\ index' = loc[p].sessions
    /\ Finish(p)
    /\ UNCHANGED <<dirs, histf, metaf, logf, issued>>

\* update_description, lines 110-118
DescribeReadIndex(p, session_id, description) ==
    /\ pc[p] = "idle"
    /\ IF session_id \notin IndexIds(index)
       THEN Finish(p)
       ELSE /\ Goto(p, "describe_write",
                    Locals("update_description", session_id, << >>,
                           DescribeRecords(index, session_id, description)))
    /\ UNCHANGED storeVars

\* line 119
DescribeWriteIndex(p) ==
    /\ pc[p] = "describe_write"
    /\ index' = loc[p].sessions
    /\ Finish(p)
    /\ UNCHANGED <<dirs, histf, metaf, logf, issued>>

\* delete_session, lines 122-125: the existence check and rmtree
DeleteRmtree(p, session_id) ==
    /\ pc[p] = "idle"
    /\ IF session_id \notin dirs
       THEN /\ Finish(p)
            /\ UNCHANGED storeVars
       ELSE /\ dirs' = dirs \ {session_id}
            /\ histf' = [histf EXCEPT ![session_id] = NoFile]
            /\ metaf' = [metaf EXCEPT ![session_id] = NoFile]
            /\ logf' = [logf EXCEPT ![session_id] = [n \in LogFiles |-> NoFile]]
            /\ Goto(p, "delete_read", Locals("delete_session", session_id, << >>, << >>))
            /\ UNCHANGED <<index, issued>>

\* line 126
DeleteReadIndex(p) ==
    /\ pc[p] = "delete_read"
    /\ Goto(p, "delete_write",
            [loc[p] EXCEPT !.sessions = SelectRecords(index, loc[p].id)])
    /\ UNCHANGED storeVars

\* line 127
DeleteWriteIndex(p) ==
    /\ pc[p] = "delete_write"
    /\ index' = loc[p].sessions
    /\ Finish(p)
    /\ UNCHANGED <<dirs, histf, metaf, logf, issued>>

NextProc ==
    \/ \E p \in Procs, d \in Descriptions \cup {NoDescription} : CreateMkdir(p, d)
    \/ \E p \in Procs : CreateHistory(p)
    \/ \E p \in Procs : CreateMetadata(p)
    \/ \E p \in Procs : CreateReadIndex(p)
    \/ \E p \in Procs : CreateWriteIndex(p)
    \/ \E p \in Procs, id \in IDs : MarkReadIndex(p, id)
    \/ \E p \in Procs : MarkWriteIndex(p)
    \/ \E p \in Procs, id \in IDs, d \in Descriptions : DescribeReadIndex(p, id, d)
    \/ \E p \in Procs : DescribeWriteIndex(p)
    \/ \E p \in Procs, id \in IDs : DeleteRmtree(p, id)
    \/ \E p \in Procs : DeleteReadIndex(p)
    \/ \E p \in Procs : DeleteWriteIndex(p)

SpecProc == Init /\ [][NextProc]_vars

\* The same processes when none of them deletes a session.
NextCreate ==
    \/ \E p \in Procs, d \in Descriptions \cup {NoDescription} : CreateMkdir(p, d)
    \/ \E p \in Procs : CreateHistory(p)
    \/ \E p \in Procs : CreateMetadata(p)
    \/ \E p \in Procs : CreateReadIndex(p)
    \/ \E p \in Procs : CreateWriteIndex(p)
    \/ \E p \in Procs, id \in IDs : MarkReadIndex(p, id)
    \/ \E p \in Procs : MarkWriteIndex(p)
    \/ \E p \in Procs, id \in IDs, d \in Descriptions : DescribeReadIndex(p, id, d)
    \/ \E p \in Procs : DescribeWriteIndex(p)

SpecCreate == Init /\ [][NextCreate]_vars

\* ------------------------------------------------------------------------
\* The chat driver: chat_cli.main, one process at a time on the store
\* ------------------------------------------------------------------------
\* resolve_session, lines 112-125 (main, lines 487-491)
ResolveSession(new_session, session_arg, env) ==
    /\ drv.pc = "stopped"
    /\ UNCHANGED <<logf, ret, procVars>>
    /\ IF new_session \/ (session_arg = None /\ env = None)
       THEN \E session_id \in IDs \ issued, created_at \in Times :
            /\ Tick(created_at)
            /\ issued' = issued \cup {session_id}
            /\ IF session_id \in dirs
               THEN /\ Exit("FileExistsError")
                    /\ UNCHANGED <<index, dirs, histf, metaf>>
               ELSE /\ dirs' = dirs \cup {session_id}
                    /\ histf' = [histf EXCEPT ![session_id] = File(EmptyHistory)]
                    /\ metaf' = [metaf EXCEPT ![session_id] = File(EmptyMeta)]
                    /\ index' = MarkRecords(
                                    Append(index, SessionRecord(session_id, created_at,
                                                                NoDescription, FALSE)),
                                    session_id)
                    /\ drv' = [Exited("0") EXCEPT !.pc = "config",
                                                !.new_session = new_session,
                                                !.environ = Some(session_id),
                                                !.session_id = session_id]
       ELSE LET session_id == IF session_arg # None THEN session_arg[1] ELSE env[1]
                sessions == MarkRecords(index, session_id)
            IN  /\ UNCHANGED <<dirs, histf, metaf, issued, now>>
                /\ IF ~session_exists(session_id)
                   THEN Exit("1") /\ UNCHANGED index
                   ELSE IF session_id \notin IndexIds(index)
                   THEN Exit("1") /\ UNCHANGED index
                   ELSE /\ index' = sessions
                        /\ drv' = [Exited("0") EXCEPT !.pc = "config",
                                                    !.new_session = new_session,
                                                    !.environ = Some(session_id),
                                                    !.session_id = session_id]

\* resolve_config, lines 128-148 (main, lines 493-497)
ResolveConfig(config_file_exists, model, window_size, should_truncate_results) ==
    /\ drv.pc = "config"
    /\ UNCHANGED <<storeVars, ret, procVars, now>>
    /\ LET stored == read_metadata(drv.session_id)
           loaded == IF session_exists(drv.session_id) THEN stored.value ELSE EmptyMeta
           from_meta == session_config_from_metadata(loaded)
           use_file == from_meta = None \/ drv.new_session
           base == IF use_file THEN FileConfig ELSE from_meta[1]
           flag == parse_bool(should_truncate_results)
           effective == apply_overrides(base, model, window_size, flag.value)
       IN  IF session_exists(drv.session_id) /\ stored.status # "ok"
           THEN Exit("SessionStoreError")
           ELSE IF use_file /\ ~config_file_exists THEN Exit("1")
           ELSE IF flag.status # "ok" THEN Exit("1")
           ELSE drv' = [drv EXCEPT !.pc = "prompt", !.config = effective,
                                   !.metadata = MSet(loaded, "config", effective)]

\* a check that never finds the prompt in the history
LastSystemIs_never(h, prompt_text) == FALSE

\* _append_system_prompt_history, lines 189-201: does the last system entry
\* of the history already carry the prompt text?
LastSystemIs(h, prompt_text) ==
    LET systems == {i \in DOMAIN h : h[i].role = "system"}
        last == CHOOSE i \in systems : \A j \in systems : j <= i
    IN  systems # {} /\ h[last].content = prompt_text

\* resolve_system_prompt, lines 151-186 (main, lines 499-503), with
\* _append_system_prompt_history, lines 189-201
ResolveSystemPrompt(inline_prompt, file_prompt, updated_at, ts) ==
    /\ drv.pc = "prompt"
    /\ (inline_prompt # None \/ file_prompt # None) =>
            (FileExists(histf[drv.session_id]) =>
                Len(Content(histf[drv.session_id])) < MaxHist)
    /\ UNCHANGED <<index, metaf, logf, issued, ret, procVars>>
    /\ LET m == drv.metadata
           previous_text == MGet(m, "system_prompt_text")
           previous_source == MGet(m, "system_prompt_source")
           previous_file_path == IF MHas(m, "system_prompt_file_path")
                                 THEN m["system_prompt_file_path"] ELSE None
           prompt_text == IF file_prompt # None THEN PromptFileText ELSE inline_prompt[1]
           source == IF file_prompt # None THEN "file" ELSE "inline"
           file_path == IF file_prompt # None THEN Some(PromptFilePath) ELSE None
           stored == read_history(drv.session_id)
           updated == MSet(MSet(MSet(MSet(m,
                          "system_prompt_text", prompt_text),
                          "system_prompt_source", source),
                          "system_prompt_file_path", file_path),
                          "system_prompt_updated_at", updated_at)
       IN  IF inline_prompt # None /\ file_prompt # None
           THEN Exit("1") /\ UNCHANGED <<dirs, histf, now>>
           ELSE IF inline_prompt = None /\ file_prompt = None
           THEN /\ drv' = [drv EXCEPT !.pc = "persist"]
                /\ UNCHANGED <<dirs, histf, now>>
           ELSE IF /\ Some(prompt_text) = previous_text
                   /\ Some(source) = previous_source
                   /\ file_path = previous_file_path
           THEN /\ drv' = [drv EXCEPT !.pc = "persist"]
                /\ UNCHANGED <<dirs, histf, now>>
           ELSE IF stored.status # "ok"
           THEN /\ Tick(updated_at)
                /\ Exit("SessionStoreError")
                /\ UNCHANGED <<dirs, histf>>
           ELSE IF LastSystemIs(stored.value, prompt_text)
           THEN /\ Tick(updated_at)
                /\ drv' = [drv EXCEPT !.pc = "persist", !.metadata = updated]
                /\ UNCHANGED <<dirs, histf>>
           ELSE /\ updated_at >= now
                /\ Tick(ts) /\ ts >= updated_at
                /\ drv' = [drv EXCEPT !.pc = "persist", !.metadata = updated]
                /\ WriteHistoryFile(drv.session_id,
                        Append(stored.value, Entry("system", prompt_text, ts)))

\* main, line 505
PersistMetadata ==
    /\ drv.pc = "persist"
    /\ WriteMetadataFile(drv.session_id, drv.metadata)
    /\ drv' = [drv EXCEPT !.pc = "load"]
    /\ UNCHANGED <<index, histf, logf, issued, ret, procVars, now>>

\* main, lines 507-557: load the history, build the model client and the agent
LoadHistory(model_client_ok, single, verbose) ==
    /\ drv.pc = "load"
    /\ UNCHANGED <<storeVars, ret, procVars, now>>
    /\ IF read_history(drv.session_id).status # "ok" THEN Exit("1")
       ELSE IF ~model_client_ok THEN Exit("1")
       ELSE drv' = [drv EXCEPT !.pc = "input", !.single = single,
                               !.verbose = verbose,
                               !.history = read_history(drv.session_id).value]

\* an append that persists the model-facing window instead of the full list
append_history_entry_window(h, role, content, ts) ==
    [entry |-> Entry(role, content, ts),
     history |-> Append(h, Entry(role, content, ts)),
     written |-> prepare_messages(Append(h, Entry(role, content, ts)),
                                  drv.config.window_size,
                                  drv.config.should_truncate_results)]

\* append_history_entry, lines 422-438: the entry, the list in memory after the
\* append, and the document handed to write_history
append_history_entry(h, role, content, ts) ==
    [entry |-> Entry(role, content, ts),
     history |-> Append(h, Entry(role, content, ts)),
     written |-> Append(h, Entry(role, content, ts))]

\* run_interactive_loop, lines 320-333, and run_single_turn, lines 287-290:
\* the user leaves (EOF, interrupt, exit command) or gives no input
LeaveSession ==
    /\ drv.pc = "input"
    /\ Exit(IF drv.single THEN "1" ELSE "0")
    /\ UNCHANGED <<storeVars, ret, procVars, now>>

\* a turn that keeps the user entry for the metadata and never stores it in
\* the history
TurnUserEntry_notStored(user_input, ts) ==
    /\ drv.pc = "input"
    /\ Len(drv.history) + 2 <= MaxHist
    /\ Len(MList(drv.metadata, "turns")) + Len(MList(drv.metadata, "errors")) < MaxTurns
    /\ Tick(ts)
    /\ WriteHistoryFile(drv.session_id, drv.history)
    /\ drv' = [drv EXCEPT !.pc = "invoke",
                           !.user_entry = Entry("user", user_input, ts),
                           !.result = NoReply, !.error = "", !.response = None]
    /\ UNCHANGED <<index, metaf, logf, issued, ret, procVars>>

\* execute_turn, line 362: the user entry is appended and persisted, then the
\* model collaborator is invoked (line 365)
TurnUserEntry(user_input, ts) ==
    /\ drv.pc = "input"
    /\ Len(drv.history) + 2 <= MaxHist
    /\ Len(MList(drv.metadata, "turns")) + Len(MList(drv.metadata, "errors")) < MaxTurns
    /\ Tick(ts)
    /\ LET a == append_history_entry(drv.history, "user", user_input, ts)
       IN  /\ WriteHistoryFile(drv.session_id, a.written)
           /\ drv' = [drv EXCEPT !.pc = "invoke", !.history = a.history,
                                  !.user_entry = a.entry, !.result = NoReply,
                                  !.error = "", !.response = None,
                                  !.printed = << >>]
    /\ UNCHANGED <<index, metaf, logf, issued, ret, procVars>>

\* line 365: agent(user_input) returns
InvokeReturns(result) ==
    /\ drv.pc = "invoke"
    /\ drv' = [drv EXCEPT !.pc = "respond", !.result = result]
    /\ UNCHANGED <<storeVars, ret, procVars, now>>

\* lines 366-367: agent(user_input) raises
InvokeRaises(message) ==
    /\ drv.pc = "invoke"
    /\ drv' = [drv EXCEPT !.pc = "failed", !.error = message]
    /\ UNCHANGED <<storeVars, ret, procVars, now>>

\* an error handler that logs in memory and does not persist the metadata
TurnFailed_notPersisted ==
    /\ drv.pc = "failed"
    /\ LET m == MSet(drv.metadata, "errors",
                     Append(MList(drv.metadata, "errors"),
                            [timestamp |-> drv.user_entry.timestamp,
                             message |-> drv.error]))
       IN  IF drv.single THEN Exit("1")
           ELSE drv' = [drv EXCEPT !.pc = "input", !.metadata = m, !.response = None]
    /\ UNCHANGED <<storeVars, ret, procVars, now>>

\* an error handler that ends the driver as the single-turn mode does
TurnFailed_exits ==
    /\ drv.pc = "failed"
    /\ LET m == MSet(drv.metadata, "errors",
                     Append(MList(drv.metadata, "errors"),
                            [timestamp |-> drv.user_entry.timestamp,
                             message |-> drv.error]))
       IN  /\ WriteMetadataFile(drv.session_id, m)
           /\ Exit("1")
    /\ UNCHANGED <<index, histf, logf, issued, ret, procVars, now>>

\* lines 368-372: the error is logged, the metadata persisted, None returned
TurnFailed ==
    /\ drv.pc = "failed"
    /\ LET m == MSet(drv.metadata, "errors",
                     Append(MList(drv.metadata, "errors"),
                            [timestamp |-> drv.user_entry.timestamp,
                             message |-> drv.error]))
       IN  /\ WriteMetadataFile(drv.session_id, m)
           /\ IF drv.single THEN Exit("1")
              ELSE drv' = [drv EXCEPT !.pc = "input", !.metadata = m,
                                      !.response = None]
    /\ UNCHANGED <<index, histf, logf, issued, ret, procVars, now>>

\* lines 374-375: the response text and the assistant entry
TurnAssistantEntry(ts) ==
    /\ drv.pc = "respond"
    /\ Tick(ts)
    /\ LET a == append_history_entry(drv.history, "assistant",
                                     ResponseText(drv.result), ts)
       IN  /\ WriteHistoryFile(drv.session_id, a.written)
           /\ drv' = [drv EXCEPT !.pc = "record", !.history = a.history,
                                  !.response = Some(a.entry)]
    /\ UNCHANGED <<index, metaf, logf, issued, ret, procVars>>

\* coerce_usage_counts, lines 441-454, as used at lines 399-407
UsagePayload(usage) ==
    IF usage = None THEN None
    ELSE Some([input_tokens |-> usage[1].inputTokens,
               output_tokens |-> usage[1].outputTokens,
               total_tokens |-> usage[1].totalTokens])

\* a turn log entry that never carries the token usage
record_turn_metadata_noUsage(m, result, user_entry, assistant_entry) ==
    MSet(MSet(MSet(m,
        "turns", Append(MList(m, "turns"),
                        [timestamp |-> assistant_entry.timestamp,
                         user |-> user_entry.content,
                         assistant |-> assistant_entry.content,
                         stop_reason |-> result.stop_reason,
                         usage |-> None])),
        "last_response", assistant_entry.content),
        "last_stop_reason", result.stop_reason)

\* record_turn_metadata, lines 390-419
record_turn_metadata(m, result, user_entry, assistant_entry) ==
    MSet(MSet(MSet(m,
        "turns", Append(MList(m, "turns"),
                        [timestamp |-> assistant_entry.timestamp,
                         user |-> user_entry.content,
                         assistant |-> assistant_entry.content,
                         stop_reason |-> result.stop_reason,
                         usage |-> UsagePayload(result.usage)])),
        "last_response", assistant_entry.content),
        "last_stop_reason", result.stop_reason)

\* verbose_print, lines 237-241: the lines it adds to stdout
verbose_print(enabled, message) == IF enabled THEN << message >> ELSE << >>

Diagnostic(label, usage, stop_reason) ==
    [label |-> label, usage |-> usage, stop_reason |-> stop_reason]

\* lines 379-386: the diagnostics of a turn
TurnDiagnostics(verbose, result) ==
    (IF result.usage # None
     THEN verbose_print(verbose, Diagnostic("tokens", UsagePayload(result.usage), ""))
     ELSE << >>)
    \o verbose_print(verbose, Diagnostic("stop reason", None, result.stop_reason))

\* a turn that logs the token usage only when it also prints it
TurnRecord_usageWhenVerbose ==
    /\ drv.pc = "record"
    /\ LET m == record_turn_metadata(drv.metadata,
                    IF drv.verbose THEN drv.result
                    ELSE [drv.result EXCEPT !.usage = None],
                    drv.user_entry, drv.response[1])
       IN  /\ WriteMetadataFile(drv.session_id, m)
           /\ IF drv.single THEN Exit("0")
              ELSE drv' = [drv EXCEPT !.pc = "input", !.metadata = m,
                                      !.response = Some(drv.response[1].content),
                                      !.printed = TurnDiagnostics(drv.verbose, drv.result)]
    /\ UNCHANGED <<index, histf, logf, issued, ret, procVars, now>>

\* lines 376-387: the turn log entry, the metadata write, the diagnostics, the
\* return value
TurnRecord ==
    /\ drv.pc = "record"
    /\ LET m == record_turn_metadata(drv.metadata, drv.result, drv.user_entry,
                                     drv.response[1])
       IN  /\ WriteMetadataFile(drv.session_id, m)
           /\ IF drv.single THEN Exit("0")
              ELSE drv' = [drv EXCEPT !.pc = "input", !.metadata = m,
                                      !.response = Some(drv.response[1].content),
                                      !.printed = TurnDiagnostics(drv.verbose, drv.result)]
    /\ UNCHANGED <<index, histf, logf, issued, ret, procVars, now>>

\* the driver process dies (kill, power loss): its memory is gone, disk stays
Crash ==
    /\ drv.pc # "stopped"
    /\ Exit("killed")
    /\ UNCHANGED <<storeVars, ret, procVars, now>>

NextTurn ==
    \/ \E new_session \in BOOLEAN, session_arg \in {None} \cup {Some(i) : i \in IDs},
          env \in {None} \cup {Some(i) : i \in IDs} :
            /\ (new_session \/ (session_arg = None /\ env = None)) => index = << >>
            /\ ResolveSession(new_session, session_arg, env)
    \/ \E w \in {None, Some(1)}, t \in {None, Some("false")} :
            ResolveConfig(TRUE, None, w, t)
    \/ \E inline_prompt \in {None, Some(PromptFileText)},
          updated_at \in Times, ts \in Times :
            ResolveSystemPrompt(inline_prompt, None, updated_at, ts)
    \/ PersistMetadata
    \/ \E model_client_ok \in BOOLEAN, single \in BOOLEAN :
            LoadHistory(model_client_ok, single, FALSE)
    \/ LeaveSession
    \/ \E user_input \in UserInputs, ts \in Times : TurnUserEntry(user_input, ts)
    \/ \E result \in Replies : InvokeReturns(result)
    \/ \E message \in ErrorMessages : InvokeRaises(message)
    \/ TurnFailed
    \/ \E ts \in Times : TurnAssistantEntry(ts)
    \/ TurnRecord
    \/ Crash

\* The driver is started any number of times; here the user creates a session
\* only while the store has none, so that every turn is run on one session,
\* and gives one prompt text, inline.
SpecTurn == Init /\ [][NextTurn]_vars

\* _write_json_file, lines 201-205, cut short while append_history_entry (line
\* 437) rewrites the history: open(path, "w") has emptied the document and the
\* process dies before the buffered text of json.dump reaches it. A document
\* of size 0 reads as [] (line 197).
KilledInWriteHistory ==
    /\ drv.pc \in {"input", "respond"}
    /\ FileExists(histf[drv.session_id])
    /\ histf' = [histf EXCEPT ![drv.session_id] = File(EmptyHistory)]
    /\ Exit("killed")
    /\ UNCHANGED <<index, dirs, metaf, logf, issued, ret, procVars, now>>

NextKill ==
    \/ NextTurn
    \/ KilledInWriteHistory

\* the driver, killed at any point, a write of the history included
SpecKill == Init /\ [][NextKill]_vars

\* A second process deletes the session the driver is running on
\* (chat_cli --delete-session, main lines 465-472).
OtherDelete ==
    /\ drv.pc # "stopped"
    /\ delete_session(drv.session_id)
    /\ UNCHANGED <<procVars, drv, now>>

\* One session is created and the driver runs turns on it, in one run or
\* several, while the other process may delete it at any moment.
NextStale ==
    \/ issued = {} /\ ResolveSession(TRUE, None, None)
    \/ \E id \in IDs : ResolveSession(FALSE, Some(id), None)
    \/ ResolveConfig(TRUE, None, None, None)
    \/ ResolveSystemPrompt(None, None, now, now)
    \/ PersistMetadata
    \/ LoadHistory(TRUE, FALSE, FALSE)
    \/ LeaveSession
    \/ \E user_input \in UserInputs, ts \in Times : TurnUserEntry(user_input, ts)
    \/ \E result \in Replies : InvokeReturns(result)
    \/ \E message \in ErrorMessages : InvokeRaises(message)
    \/ TurnFailed
    \/ \E ts \in Times : TurnAssistantEntry(ts)
    \/ TurnRecord
    \/ OtherDelete

SpecStale == Init /\ [][NextStale]_vars

\* ------------------------------------------------------------------------
\* Starts of the driver with every combination of command-line arguments
\* (parse_args, main lines 457-505). The arguments of the invocation and what
\* the store held when it began are kept with the invoking process.
\* ------------------------------------------------------------------------
Invoker == "p"
ModelOverrides == {None, Some("claude")}
SessionArgs == {None, Some("s1"), Some("s2")}
EnvValues == {None, Some("s1")}
InlinePrompts == {None, Some(PromptFileText), Some(<<"P2">>)}
PromptFiles == {None, Some(PromptFilePath)}

Args(new_session, session, env, model, window_size, should_truncate_results, system_prompt, system_prompt_file) ==
    [new_session |-> new_session, session |-> session, env |-> env, model |-> model,
     window_size |-> window_size, should_truncate_results |-> should_truncate_results,
     system_prompt |-> system_prompt, system_prompt_file |-> system_prompt_file]

StartTargets == {Args(TRUE, None, None, None, None, None, None, None),
                 Args(FALSE, Some("s1"), None, None, None, None, None, None)}
\* command lines that choose the session: every way of naming it with
\* nothing else given, and the two rejected forms (a truncate flag that is no
\* boolean word, both prompt arguments) on a new session and on session s1
StartArgs ==
    {Args(n, s, e, None, None, None, None, None) :
        n \in BOOLEAN, s \in SessionArgs, e \in EnvValues}
    \cup {[a EXCEPT !.should_truncate_results = Some("maybe")] : a \in StartTargets}
    \cup {[a EXCEPT !.system_prompt = Some(PromptFileText),
                    !.system_prompt_file = Some(PromptFilePath)] : a \in StartTargets}
\* command lines that set the configuration or the system prompt of a new
\* session and of session s1
SettingArgs ==
    {[a EXCEPT !.model = mo, !.window_size = w, !.should_truncate_results = t] :
            a \in StartTargets, mo \in ModelOverrides, w \in {None, Some(1)},
            t \in TruncateOverrides}
    \cup {[a EXCEPT !.system_prompt = ip, !.system_prompt_file = fp] :
            a \in StartTargets, ip \in InlinePrompts, fp \in PromptFiles}

\* the documents of the store the driver's start-up can write
StoreNow == [index |-> index, dirs |-> dirs, histf |-> histf, metaf |-> metaf]

Invocation(args, before) == [op |-> "main", args |-> args, before |-> before]

\* main, lines 458-459: the arguments are parsed and the store is opened
ParseArgs(args) ==
    /\ drv.pc = "stopped"
    /\ pc' = [pc EXCEPT ![Invoker] = "parsed"]
    /\ loc' = [loc EXCEPT ![Invoker] = Invocation(args, StoreNow)]
    /\ UNCHANGED <<storeVars, ret, drv, now>>

Parsed == pc[Invoker] = "parsed"
args == loc[Invoker].args

\* main, lines 487-491
StartSession ==
    /\ Parsed
    /\ loc[Invoker].before = StoreNow
    /\ ResolveSession(args.new_session, args.session, args.env)

\* main, lines 493-497
StartConfig ==
    /\ Parsed
    /\ ResolveConfig(TRUE, args.model, args.window_size, args.should_truncate_results)

\* main, lines 499-503
StartSystemPrompt ==
    /\ Parsed
    /\ \E updated_at \in Times, ts \in Times :
            ResolveSystemPrompt(args.system_prompt, args.system_prompt_file, updated_at, ts)

\* main, lines 465-472: --delete-session, between two runs of the driver
StartDelete(id) ==
    /\ drv.pc = "stopped"
    /\ delete_session(id)
    /\ UNCHANGED <<procVars, drv, now>>

\* the steps of a start-up after the arguments are parsed
StartSteps ==
    \/ StartSession
    \/ StartConfig
    \/ StartSystemPrompt
    \/ Parsed /\ PersistMetadata
    \/ Parsed /\ LoadHistory(TRUE, FALSE, FALSE)
    \/ Parsed /\ LeaveSession

NextStart ==
    \/ \E a \in StartArgs : ParseArgs(a)
    \/ StartSteps
    \/ \E id \in IDs : StartDelete(id)

SpecStart == Init /\ [][NextStart]_vars

\* One session, started again and again with every configuration override and
\* prompt argument, the driver killed at any point of a start.
NextSettings ==
    \/ \E a \in SettingArgs : (a.new_session => index = << >>) /\ ParseArgs(a)
    \/ StartSteps
    \/ Parsed /\ Crash

SpecSettings == Init /\ [][NextSettings]_vars

\* ------------------------------------------------------------------------
\* Two drivers on one session, each running one turn. A history write is
\* what _write_json_file does to the file (session_store.py lines 201-205):
\* open("w") cuts it to size 0, the text of json.dump reaches it piece by
\* piece at the writer's own offset, and the handle is closed. A piece is the
\* text of one entry; a gap left before a piece reads as Hole.
\* ------------------------------------------------------------------------
Hole == NoEntry
Racer(id, h, offset) == [op |-> "turn", id |-> id, history |-> h, offset |-> offset]
RacerText(p, role) == IF role = "user" THEN << p >> ELSE << p, p >>

\* write(2) of one piece at an offset of a file that may have been cut since
PutPiece(text, offset, piece) ==
    LET padded == IF Len(text) >= offset THEN text
                  ELSE text \o [i \in 1..(offset - Len(text)) |-> Hole]
    IN  IF Len(padded) > offset THEN [padded EXCEPT ![offset + 1] = piece]
        ELSE Append(padded, piece)

\* main, line 507: the driver reads the history of its session into memory
RaceLoad(p, id) ==
    /\ pc[p] = "idle"
    /\ read_history(id).status = "ok"
    /\ pc' = [pc EXCEPT ![p] = "user"]
    /\ loc' = [loc EXCEPT ![p] = Racer(id, read_history(id).value, 0)]
    /\ UNCHANGED <<storeVars, ret, drv, now>>

\* append_history_entry, lines 430-436, up to the open("w") of the write
RaceOpen(p) ==
    /\ pc[p] \in {"user", "assistant"}
    /\ pc' = [pc EXCEPT ![p] = IF pc[p] = "user" THEN "write_user" ELSE "write_assistant"]
    /\ loc' = [loc EXCEPT ![p] =
                Racer(loc[p].id,
                      append_history_entry(loc[p].history, pc[p],
                                           RacerText(p, pc[p]), now).history,
                      0)]
    /\ histf' = [histf EXCEPT ![loc[p].id] = File(<< >>)]
    /\ UNCHANGED <<index, dirs, metaf, logf, issued, ret, drv, now>>

\* one piece of the text of json.dump reaches the file
RaceWrite(p) ==
    /\ pc[p] \in {"write_user", "write_assistant"}
    /\ loc[p].offset < Len(loc[p].history)
    /\ histf' = [histf EXCEPT ![loc[p].id] =
                    File(PutPiece(Content(histf[loc[p].id]), loc[p].offset,
                                  loc[p].history[loc[p].offset + 1]))]
    /\ loc' = [loc EXCEPT ![p].offset = loc[p].offset + 1]
    /\ UNCHANGED <<index, dirs, metaf, logf, issued, ret, pc, drv, now>>

\* the handle is closed: the write is over
RaceClose(p) ==
    /\ pc[p] \in {"write_user", "write_assistant"}
    /\ loc[p].offset = Len(loc[p].history)
    /\ pc' = [pc EXCEPT ![p] = IF pc[p] = "write_user" THEN "assistant" ELSE "done"]
    /\ UNCHANGED <<storeVars, ret, loc, drv, now>>

NextRace ==
    \/ index = << >> /\ create_session(NoDescription) /\ UNCHANGED <<procVars, drv>>
    \/ \E p \in Procs, id \in IDs : RaceLoad(p, id)
    \/ \E p \in Procs : RaceOpen(p)
    \/ \E p \in Procs : RaceWrite(p)
    \/ \E p \in Procs : RaceClose(p)

SpecRace == Init /\ [][NextRace]_vars

\* ------------------------------------------------------------------------
\* The monitors (completeness_monitor.py, profile_monitor.py,
\* monitor_utils.py) beside a driver that uses the same store. The monitor is
\* process Monitor; Terminal holds the line the user has typed and the
\* monitor has not read yet.
\* ------------------------------------------------------------------------
Monitor == "p"
Terminal == "q"
MonitorKinds == {"completeness", "profile"}

\* the value of index while sessions/index.json has not been created
MissingIndex == << SessionRecord(NoId, 0, NoDescription, FALSE) >>
IndexExists == index # MissingIndex

\* explore-topic.json: the topics it has a prompt for
PromptSets == {CanonicalTopics \ {"housing_geography"}}
TypedLines == {"q", "1", "3", "9", "x"}
IsQuit(selection) == selection \in {"q", "quit", "exit"}
IsDigit(selection) == selection \in {"1", "3", "9"}
IntOf(selection) == IF selection = "1" THEN 1 ELSE IF selection = "3" THEN 3 ELSE 9

Tty(line) == [op |-> "tty", line |-> line]
MonitorState(kind, arg, prompts, id, shown, status) ==
    [op |-> kind, arg |-> arg, prompts |-> prompts, id |-> id, shown |-> shown,
     status |-> status]

\* what is on the screen after clear_screen() and the prints that follow
Awaiting == << [message |-> "awaiting data..."] >>
Message(text) == << [message |-> text] >>
PromptShown(topic) == << [prompt |-> topic] >>

\* a base directory in which no store has been constructed yet
InitFresh ==
    /\ index = MissingIndex
    /\ dirs = {}
    /\ histf = [i \in IDs |-> NoFile]
    /\ metaf = [i \in IDs |-> NoFile]
    /\ logf = [i \in IDs |-> [n \in LogFiles |-> NoFile]]
    /\ issued = {}
    /\ ret = Result("init", NoId, "ok")
    /\ pc = [p \in Procs |-> "idle"]
    /\ loc = [p \in Procs |-> IF p = Terminal THEN Tty(None) ELSE NoLocals]
    /\ drv = Exited("0")
    /\ now = 0

\* format_topic_line, completeness_monitor.py lines 49-58: the row of a topic
format_topic_line(i, topic, score) == [index |-> i, topic |-> topic, score |-> score]

\* run_monitor, lines 102-106: one row per canonical topic
ScoreLines(latest) ==
    [i \in 1..Len(CANONICAL_TOPICS) |->
        format_topic_line(i, CANONICAL_TOPICS[i],
                          IF latest[CANONICAL_TOPICS[i]] = None THEN None
                          ELSE Some(latest[CANONICAL_TOPICS[i]][1].score))]

\* group_information and render_grouped_records, profile_monitor.py lines
\* 22-61: the records topic by topic in canonical order
RECURSIVE GroupByTopic(_, _)
GroupByTopic(records, topics) ==
    IF topics = << >> THEN << >>
    ELSE SelectSeq(records, LAMBDA r : r.topic = Head(topics))
         \o GroupByTopic(records, Tail(topics))
render_grouped_records(records) == GroupByTopic(records, CANONICAL_TOPICS)

\* a ledger line of which only the first part has reached the file
TornLine(payload) == [torn |-> payload]
IsTorn(line) == DOMAIN line = {"torn"}

\* SessionStore.read_jsonl through _read_jsonl: json.loads fails on a line
\* that is not complete
MonitorRead(kind, id) ==
    LET read == IF kind = "completeness" THEN read_completeness_snapshots(id)
                ELSE read_information_records(id)
    IN  IF read.status # "ok" THEN read
        ELSE IF \E i \in DOMAIN read.value : IsTorn(read.value[i])
        THEN Returned("JSONDecodeError", << >>)
        ELSE read

MonitorAt(at) == pc' = [pc EXCEPT ![Monitor] = at]
MonitorShows(shown) == loc' = [loc EXCEPT ![Monitor].shown = shown]
MonitorExits(status) ==
    /\ MonitorAt("exited")
    /\ loc' = [loc EXCEPT ![Monitor].status = status]

\* main, lines 130-147: the monitor is started
MonitorStart(kind, arg, prompts) ==
    /\ pc[Monitor] = "idle"
    /\ MonitorAt("construct")
    /\ loc' = [loc EXCEPT ![Monitor] = MonitorState(kind, arg, prompts, NoId, << >>, "")]
    /\ UNCHANGED <<storeVars, ret, drv, now>>

\* SessionStore.__init__, session_store.py line 60: is the index there?
MonitorCheckIndex ==
    /\ pc[Monitor] = "construct"
    /\ MonitorAt(IF IndexExists THEN "resolve" ELSE "write_index")
    /\ UNCHANGED <<storeVars, ret, loc, drv, now>>

\* SessionStore.__init__, line 61: self._write_index([])
MonitorWriteIndex ==
    /\ pc[Monitor] = "write_index"
    /\ index' = << >>
    /\ MonitorAt("resolve")
    /\ UNCHANGED <<dirs, histf, metaf, logf, issued, ret, loc, drv, now>>

\* resolve_session_id, monitor_utils.py lines 25-36; run_monitor returns 1
\* when it raises
resolve_session_id(session_arg) ==
    IF session_arg # None
    THEN IF session_exists(session_arg[1]) THEN Some(session_arg[1]) ELSE None
    ELSE IF get_current_session = << >> THEN None
         ELSE Some(get_current_session[1].id)

MonitorResolve ==
    /\ pc[Monitor] = "resolve"
    /\ IF resolve_session_id(loc[Monitor].arg) = None
       THEN MonitorExits("1")
       ELSE /\ MonitorAt("poll")
            /\ loc' = [loc EXCEPT ![Monitor].id = resolve_session_id(loc[Monitor].arg)[1]]
    /\ UNCHANGED <<storeVars, ret, drv, now>>

\* the top of the polling loop: the ledger is read and rendered
\* (completeness_monitor.py lines 95-106, profile_monitor.py lines 75-83)
MonitorPoll ==
    /\ pc[Monitor] = "poll"
    /\ LET kind == loc[Monitor].op
           read == MonitorRead(kind, loc[Monitor].id)
       IN  IF read.status # "ok" THEN MonitorExits(read.status)
           ELSE IF read.value = << >>
           THEN MonitorAt("sleep") /\ MonitorShows(Awaiting)
           ELSE IF kind = "completeness"
           THEN /\ MonitorAt("prompt")
                /\ MonitorShows(ScoreLines(compute_latest_scores(read.value)))
           ELSE /\ MonitorAt("sleep")
                /\ MonitorShows(render_grouped_records(read.value))
    /\ UNCHANGED <<storeVars, ret, drv, now>>

\* time.sleep(poll_interval), or time.sleep(1) after a message, returns
MonitorWake ==
    /\ pc[Monitor] = "sleep"
    /\ MonitorAt("poll")
    /\ UNCHANGED <<storeVars, ret, loc, drv, now>>

\* a wait for input that has no timeout
MonitorInput_blocking ==
    /\ pc[Monitor] = "prompt"
    /\ loc[Terminal].line # None
    /\ MonitorAt("poll")
    /\ loc' = [loc EXCEPT ![Terminal] = Tty(None)]
    /\ UNCHANGED <<storeVars, ret, drv, now>>

\* read_input_with_timeout and the handling of the selection,
\* completeness_monitor.py lines 108-127 (maybe_show_prompt, lines 61-73)
MonitorInput ==
    /\ pc[Monitor] = "prompt"
    /\ UNCHANGED <<storeVars, ret, drv, now>>
    /\ IF loc[Terminal].line = None
       THEN MonitorAt("poll") /\ UNCHANGED loc
       ELSE LET selection == loc[Terminal].line[1]
                typed == [loc EXCEPT ![Terminal] = Tty(None)]
                topic == CANONICAL_TOPICS[IntOf(selection)]
            IN  IF selection = ""
                THEN MonitorAt("poll") /\ loc' = typed
                ELSE IF IsQuit(selection)
                THEN /\ MonitorAt("exited")
                     /\ loc' = [typed EXCEPT ![Monitor].status = "0",
                                             ![Monitor].shown = Message("Exiting.")]
                ELSE IF ~IsDigit(selection)
                        \/ ~(1 <= IntOf(selection) /\ IntOf(selection) <= Len(CANONICAL_TOPICS))
                THEN /\ MonitorAt("sleep")
                     /\ loc' = [typed EXCEPT ![Monitor].shown =
                                    Message("Please enter a number between 1 and 8")]
                ELSE IF topic \notin loc[Monitor].prompts
                THEN /\ MonitorAt("poll")
                     /\ loc' = [typed EXCEPT ![Monitor].shown =
                                    Message("No recommended prompt found")]
                ELSE /\ MonitorAt("pause")
                     /\ loc' = [typed EXCEPT ![Monitor].shown = PromptShown(topic)]

\* maybe_show_prompt, line 73: input() returns when the user presses Enter
MonitorAck ==
    /\ pc[Monitor] = "pause"
    /\ loc[Terminal].line # None
    /\ MonitorAt("poll")
    /\ loc' = [loc EXCEPT ![Terminal] = Tty(None)]
    /\ UNCHANGED <<storeVars, ret, drv, now>>

\* the user types a line at the monitor's terminal
UserTypes(line) ==
    /\ pc[Monitor] \in {"poll", "sleep", "prompt", "pause"}
    /\ loc[Terminal].line = None
    /\ loc' = [loc EXCEPT ![Terminal] = Tty(Some(line))]
    /\ UNCHANGED <<storeVars, ret, pc, drv, now>>

\* the driver constructs its store: SessionStore.__init__, lines 54-61
DriverConstruct ==
    /\ ~IndexExists
    /\ index' = << >>
    /\ ret' = Result("SessionStore", NoId, "ok")
    /\ UNCHANGED <<dirs, histf, metaf, logf, issued, procVars, drv, now>>

\* SessionStore.append_jsonl, lines 150-153, when the text of the line reaches
\* the file in two parts
TornAppend(id, payload) ==
    /\ IndexExists /\ session_exists(id)
    /\ TotalLines < MaxLedger
    /\ AppendLine(id, COMPLETENESS_FILENAME, TornLine(payload))
    /\ ret' = Result("append_completeness_snapshot", id, "writing")
    /\ UNCHANGED <<index, histf, metaf, issued, procVars, drv, now>>

FinishAppend(id) ==
    LET lines == LogLines(id, COMPLETENESS_FILENAME)
    IN  /\ lines # << >>
        /\ IsTorn(lines[Len(lines)])
        /\ logf' = [logf EXCEPT ![id][COMPLETENESS_FILENAME] =
                        File([lines EXCEPT ![Len(lines)] = lines[Len(lines)].torn])]
        /\ ret' = Result("append_completeness_snapshot", id, "ok")
        /\ UNCHANGED <<index, dirs, histf, metaf, issued, procVars, drv, now>>

MonitorBatches ==
    { << ScoreEntry("income_cash_flow", IntScore(0), None) >>,
      << ScoreEntry("income_cash_flow", IntScore(100), None),
         ScoreEntry("estate_planning", IntScore(100), None) >> }

\* the steps of the monitor itself
MonitorNext ==
    \/ \E kind \in MonitorKinds, arg \in {None} \cup {Some(i) : i \in IDs},
          prompts \in PromptSets : MonitorStart(kind, arg, prompts)
    \/ MonitorCheckIndex
    \/ MonitorWriteIndex
    \/ MonitorResolve
    \/ MonitorPoll
    \/ MonitorWake
    \/ MonitorInput
    \/ MonitorAck

NextMonitor ==
    \/ MonitorNext
    \/ \E line \in TypedLines : UserTypes(line)
    \/ DriverConstruct
    \/ IndexExists /\ issued = {} /\ create_session(NoDescription)
            /\ UNCHANGED <<procVars, drv>>
    \/ \E id \in IndexIds(index) : IndexExists /\ mark_current(id)
            /\ UNCHANGED <<procVars, drv, now>>
    \/ \E id \in dirs : IndexExists /\ delete_session(id)
            /\ UNCHANGED <<procVars, drv, now>>
    \/ \E id \in dirs, scores \in MonitorBatches :
            IndexExists /\ append_completeness_snapshot(id, scores, now)
                /\ UNCHANGED <<procVars, drv>>
    \/ \E id \in dirs, value \in FactValues :
            IndexExists /\ append_information_record(id, "income_cash_flow", value, now)
                /\ UNCHANGED <<procVars, drv>>
    \/ \E id \in dirs, scores \in MonitorBatches :
            TornAppend(id, CompletenessSnapshot(id, scores, now))
    \/ \E id \in dirs : FinishAppend(id)

SpecMonitor == InitFresh /\ [][NextMonitor]_vars

\* the monitor is a process of its own: its sleeps return and its waits for
\* input time out
SpecMonitorLive ==
    InitFresh /\ [][NextMonitor]_vars
        /\ WF_vars(MonitorPoll) /\ WF_vars(MonitorWake) /\ WF_vars(MonitorInput)

\* ------------------------------------------------------------------------
\* Properties of the session store
\* ------------------------------------------------------------------------
CurrentCount(sessions) == Cardinality({i \in DOMAIN sessions : sessions[i].is_current})
Records(sessions) == {sessions[i] : i \in DOMAIN sessions}
HasNoSession(id) == id \notin dirs /\ id \notin IndexIds(index)
OnlyCurrent(sessions, id) ==
    /\ id \in IndexIds(sessions)
    /\ \A i \in DOMAIN sessions : sessions[i].is_current <=> (sessions[i].id = id)
DocsUnchangedExcept(id) ==
    \A other \in IDs \ {id} :
        /\ histf'[other] = histf[other]
        /\ metaf'[other] = metaf[other]
        /\ logf'[other] = logf[other]

\* C1: with create, markCurrent, updateDescription and delete interleaved by
\* several processes (each index read and each index write one step), at most
\* one index entry is current in every reachable state; and the index that a
\* successful markCurrent(B) writes has B current and every other entry not
\* current.
C1_AtMostOneCurrent ==
    /\ [](CurrentCount(index) <= 1)
    /\ [][\A p \in Procs :
            (pc[p] = "mark_write" /\ pc'[p] = "idle")
                => OnlyCurrent(index', loc[p].id)]_vars

\* the flag is on one session while another process is about to move it
C1_Witness ==
    \E p \in Procs, i \in DOMAIN index :
        /\ pc[p] = "mark_write"
        /\ index[i].is_current
        /\ index[i].id # loc[p].id
        /\ \E q \in Procs \ {p} : pc[q] # "idle"

\* C2: a successful delete(id) removes id from list(), makes exists(id)
\* false, removes the session's history, metadata and logs, and leaves every
\* other index record and document as it was; no other session becomes
\* current.
C2_DeleteFrame ==
    [][\A id \in IDs :
        (ret'.op = "delete_session" /\ ret'.status = "ok" /\ ret'.id = id) =>
        /\ id \notin IndexIds(list_sessions')
        /\ ~session_exists(id)'
        /\ read_history(id)'.status # "ok"
        /\ read_metadata(id)'.status # "ok"
        /\ \A n \in LogNames : ~FileExists(logf'[id][n])
        /\ Records(index') = {r \in Records(index) : r.id # id}
        /\ Len(index') = Cardinality({i \in DOMAIN index : index[i].id # id})
        /\ dirs' = dirs \ {id}
        /\ DocsUnchangedExcept(id)]_vars

\* the current session has just been deleted and another session remains
C2_Witness ==
    /\ ret.op = "delete_session" /\ ret.status = "ok"
    /\ Len(index) = 1
    /\ ~index[1].is_current
    /\ index[1].description = "d"
    /\ histf[index[1].id] = File(SampleHistory)

\* C3: for an id that has no session, writeHistory, writeMetadata,
\* markCurrent, updateDescription and delete fail with NotFound and leave the
\* store unchanged, and readHistory and readMetadata fail instead of returning
\* a default (for the two reads any store error is accepted here).
C3_AbsentIdIsNotFound ==
    /\ [](\A id \in IDs : HasNoSession(id) =>
            /\ read_history(id).status # "ok"
            /\ read_metadata(id).status # "ok")
    /\ [][(/\ ret'.op \in {"write_history", "write_metadata", "mark_current",
                           "update_description", "delete_session"}
           /\ HasNoSession(ret'.id))
            => (ret'.status = "SessionNotFoundError" /\ UNCHANGED storeVars)]_vars

\* C4: between operations of a single process, the ids of the index are
\* exactly the session directories on disk.
C4_IndexMatchesDirs == IndexIds(index) = dirs

\* C5: a successful create returns an id that is neither in the index nor a
\* directory, the new history reads [] and the new metadata {}, the new entry
\* is not current and is last, and everything else is unchanged; a colliding
\* id is an error that changes no document and no index entry.
C5_CreateAddsOneSession ==
    [][\A id \in IDs :
        (ret'.op = "create_session" /\ ret'.id = id) =>
        IF ret'.status = "ok"
        THEN /\ id \notin IndexIds(index)
             /\ id \notin dirs
             /\ read_history(id)' = Returned("ok", EmptyHistory)
             /\ read_metadata(id)' = Returned("ok", EmptyMeta)
             /\ Len(index') = Len(index) + 1
             /\ SubSeq(index', 1, Len(index)) = index
             /\ index'[Len(index')].id = id
             /\ index'[Len(index')].is_current = FALSE
             /\ dirs' = dirs \cup {id}
             /\ DocsUnchangedExcept(id)
             /\ logf'[id] = logf[id]
        ELSE /\ id \in dirs
             /\ UNCHANGED <<index, dirs, histf, metaf, logf>>]_vars

\* a session was created while another one, current and with content, exists
C5_Witness ==
    /\ ret.op = "create_session" /\ ret.status = "ok"
    /\ Len(index) = 2
    /\ index[1].is_current
    /\ index[2].id = ret.id
    /\ histf[index[1].id] = File(SampleHistory)

\* the texts a content block of a reply can carry
BlockTexts == { << >>, <<"a">>, <<" ", "b">>, <<"c", "\n">> }
ReplyBlocks == {TextBlock(t) : t \in BlockTexts} \cup {ToolUseBlock}
ReplyMessages ==
    {<< >>} \cup {<< b >> : b \in ReplyBlocks}
            \cup {<< b, c >> : b \in ReplyBlocks, c \in ReplyBlocks}
TextReplies ==
    {Reply(msg, "end_turn", u) :
        msg \in ReplyMessages,
        u \in {None, Some([inputTokens |-> 1, outputTokens |-> 2, totalTokens |-> 3])}}

\* One run of the driver on a new session, with any reply of the model
\* collaborator and the verbose flag on or off.
NextReply ==
    \/ index = << >> /\ ResolveSession(TRUE, None, None)
    \/ ResolveConfig(TRUE, None, None, None)
    \/ \E updated_at \in Times, ts \in Times :
            ResolveSystemPrompt(None, None, updated_at, ts)
    \/ PersistMetadata
    \/ \E single \in BOOLEAN, verbose \in BOOLEAN : LoadHistory(TRUE, single, verbose)
    \/ LeaveSession
    \/ \E user_input \in UserInputs, ts \in Times : TurnUserEntry(user_input, ts)
    \/ \E result \in TextReplies : InvokeReturns(result)
    \/ \E message \in ErrorMessages : InvokeRaises(message)
    \/ TurnFailed
    \/ \E ts \in Times : TurnAssistantEntry(ts)
    \/ TurnRecord

SpecReply == Init /\ [][NextReply]_vars

\* replies with tool invocations and tool results
TextOfLength(n) == [i \in 1..n |-> "A"]
ResultContents ==
    {<< >>} \cup {<< TextBlock(TextOfLength(n)) >> :
                    n \in {1, SUMMARY_LIMIT - 1, SUMMARY_LIMIT, SUMMARY_LIMIT + 1, 300}}
            \cup {<< TextBlock(TextOfLength(n)), TextBlock(TextOfLength(1)) >> :
                    n \in {SUMMARY_LIMIT - 1, SUMMARY_LIMIT}}
ToolUses ==
    {ToolUseBlockOf("abc", "retirement_readiness", "age=54"),
     ToolUseBlockOf("xyz", "information_query", "topic")}
ToolResults ==
    {ToolResultBlock("abc", "success", c) : c \in ResultContents}
        \cup {ToolResultBlock("xyz", "error", << TextBlock(TextOfLength(1)) >>)}
ToolBlocks == ToolUses \cup ToolResults \cup {TextBlock(<<"o", "k">>)}
ToolMessages ==
    {<< b >> : b \in ToolBlocks}
        \cup {<< b, c >> : b \in ToolBlocks, c \in ToolBlocks}
        \cup {<< u, v, r >> : u \in ToolUses, v \in ToolUses, r \in ToolResults}
ToolReplies == {Reply(msg, "end_turn", None) : msg \in ToolMessages}

\* One run of the driver on a new session with replies that carry tool blocks.
NextTools ==
    \/ index = << >> /\ ResolveSession(TRUE, None, None)
    \/ ResolveConfig(TRUE, None, None, None)
    \/ \E updated_at \in Times, ts \in Times :
            ResolveSystemPrompt(None, None, updated_at, ts)
    \/ PersistMetadata
    \/ LoadHistory(TRUE, TRUE, FALSE)
    \/ \E user_input \in UserInputs, ts \in Times : TurnUserEntry(user_input, ts)
    \/ \E result \in ToolReplies : InvokeReturns(result)
    \/ \E ts \in Times : TurnAssistantEntry(ts)
    \/ TurnRecord

SpecTools == Init /\ [][NextTools]_vars

\* ------------------------------------------------------------------------
\* Properties of the turn pipeline
\* ------------------------------------------------------------------------
DiskHistory(id) == Content(histf[id])
DiskMetadata(id) == Content(metaf[id])
Last(h) == h[Len(h)]
Killed(d) == d.pc = "stopped" /\ d.status = "killed"
\* the step in which the handler of a failed invocation (lines 366-372) runs
FailedStep == drv.pc = "failed" /\ drv'.pc # "failed" /\ ~Killed(drv')
\* the step in which lines 376-387 run
RecordStep == drv.pc = "record" /\ drv'.pc # "record" /\ ~Killed(drv')
ErrorEntry(d) == [timestamp |-> d.user_entry.timestamp, message |-> d.error]

\* C6: while the model collaborator is being invoked the history on disk ends
\* with the turn's user entry, and every step taken after that point of the
\* turn, the death of the driver included, leaves a readable history on disk
\* that contains the user entry.
C6_PromptSurvivesCrash ==
    /\ [](drv.pc = "invoke" =>
            /\ read_history(drv.session_id).status = "ok"
            /\ DiskHistory(drv.session_id) # << >>
            /\ Last(DiskHistory(drv.session_id)) = drv.user_entry
            /\ drv.user_entry.role = "user")
    /\ [][drv.pc \in {"invoke", "respond", "failed", "record"} =>
            \A id \in {drv.session_id} :
                /\ read_history(id)'.status = "ok"
                /\ \E j \in DOMAIN DiskHistory(id)' :
                       DiskHistory(id)'[j] = drv.user_entry]_vars

\* C7: when the model invocation fails, the history on disk is the history
\* before the turn plus the user entry and is not touched again, the pipeline
\* returns no result, exactly one entry (the user entry's timestamp, the
\* message) is appended to the persisted error log, and the persisted turn log
\* is unchanged.
C7_FailedTurn ==
    [][/\ (drv.pc = "input" /\ drv'.pc = "invoke") =>
            \A id \in {drv.session_id} :
            /\ DiskHistory(id)' = Append(DiskHistory(id), drv'.user_entry)
            /\ drv'.user_entry.role = "user"
       /\ (drv.pc = "invoke" /\ drv'.pc = "failed") => UNCHANGED <<histf, metaf>>
       /\ FailedStep =>
            \A id \in {drv.session_id} :
            /\ drv'.response = None
            /\ drv'.pc \in {"input", "stopped"}
            /\ UNCHANGED histf
            /\ Last(DiskHistory(id)) = drv.user_entry
            /\ MList(DiskMetadata(id)', "errors") =
                    Append(MList(DiskMetadata(id), "errors"), ErrorEntry(drv))
            /\ MList(DiskMetadata(id)', "turns") = MList(DiskMetadata(id), "turns")
            /\ drv'.pc = "input" => drv'.metadata = DiskMetadata(id)'
      ]_vars

\* two turns in a row have failed: two user entries, two logged errors
C7_Witness ==
    /\ drv.pc = "input" /\ drv.response = None
    /\ Len(MList(DiskMetadata(drv.session_id), "errors")) = 2
    /\ ~MHas(DiskMetadata(drv.session_id), "turns")
    /\ Len(DiskHistory(drv.session_id)) = 2
    /\ \A i \in 1..2 : DiskHistory(drv.session_id)[i].role = "user"

\* C8: in the interactive loop a failed invocation leaves the driver waiting
\* for the next input with its history intact, and whenever the loop waits
\* for input the history in memory is the one on disk, so the entries of a
\* later turn follow the unanswered user entries.
C8_FailureKeepsSession ==
    /\ [][(FailedStep /\ ~drv.single) =>
            /\ drv'.pc = "input"
            /\ drv'.session_id = drv.session_id
            /\ drv'.history = drv.history]_vars
    /\ [](drv.pc = "input" => drv.history = DiskHistory(drv.session_id))

\* a turn was answered after a failed one: user, user, assistant
C8_Witness ==
    /\ drv.pc = "input" /\ ~drv.single /\ drv.response # None
    /\ MHas(drv.metadata, "errors")
    /\ LET h == DiskHistory(drv.session_id) IN
          /\ Len(h) = 3
          /\ h[1].role = "user" /\ h[2].role = "user" /\ h[3].role = "assistant"

\* C9: on a successful invocation one assistant entry is appended directly
\* after the turn's user entry and the history persisted while the metadata on
\* disk is still unchanged; then one entry with the turn's user content,
\* assistant content, stop reason and token usage (if present) is appended to
\* the persisted turn log; the error log is unchanged.
C9_SuccessfulTurn ==
    [][/\ (drv.pc = "respond" /\ drv'.pc = "record") =>
            \A id \in {drv.session_id} :
            /\ Last(DiskHistory(id)) = drv.user_entry
            /\ Len(DiskHistory(id)') = Len(DiskHistory(id)) + 1
            /\ IsPrefix(DiskHistory(id), DiskHistory(id)')
            /\ Last(DiskHistory(id)').role = "assistant"
            /\ Last(DiskHistory(id)').content = ResponseText(drv.result)
            /\ UNCHANGED metaf
       /\ RecordStep =>
            \A id \in {drv.session_id} :
            \A assistant \in {Last(DiskHistory(id))} :
            /\ UNCHANGED histf
            /\ assistant.role = "assistant"
            /\ MList(DiskMetadata(id)', "turns") =
                    Append(MList(DiskMetadata(id), "turns"),
                           [timestamp |-> assistant.timestamp,
                            user |-> drv.user_entry.content,
                            assistant |-> assistant.content,
                            stop_reason |-> drv.result.stop_reason,
                            usage |-> UsagePayload(drv.result.usage)])
            /\ MList(DiskMetadata(id)', "errors") = MList(DiskMetadata(id), "errors")
      ]_vars

\* a turn with token usage was recorded after a failed turn was logged
C9_Witness ==
    /\ drv.pc = "input" /\ drv.response # None
    /\ LET m == DiskMetadata(drv.session_id) IN
          /\ MHas(m, "turns") /\ MHas(m, "errors")
          /\ Last(m["turns"]).usage # None
          /\ Last(m["turns"]).assistant = <<"o", "k">>

C11_TurnShape ==
    \A id \in IDs : FileExists(histf[id]) =>
        \A i \in DOMAIN DiskHistory(id) :
            DiskHistory(id)[i].role = "assistant" =>
                /\ i > 1
                /\ DiskHistory(id)[i - 1].role = "user"

\* a session with a system prompt entry and one answered turn
C11_Witness ==
    \E id \in IDs :
        /\ FileExists(histf[id])
        /\ Len(DiskHistory(id)) = 3
        /\ DiskHistory(id)[1].role = "system"
        /\ DiskHistory(id)[2].role = "user"
        /\ DiskHistory(id)[3].role = "assistant"

\* the assistant content written by the step that stores the response
StoresResponse(content) ==
    /\ drv.pc = "respond" /\ drv'.pc = "record"
    /\ \A id \in {drv.session_id} : Last(DiskHistory(id)').content = content

\* C12 as claimed: the stored response text is the text blocks of the reply
\* joined by line breaks, and the placeholder when the reply has no text block.
C12_ResponseIsJoinedText ==
    [][(drv.pc = "respond" /\ drv'.pc = "record") =>
        StoresResponse(IF TextChunks(drv.result.message) # << >>
                       THEN JoinLines(TextChunks(drv.result.message))
                       ELSE NoResponse)]_vars

AllWhitespace(t) == \A i \in DOMAIN t : t[i] \in Whitespace

\* c is t without its leading and trailing whitespace
IsTrimOf(c, t) ==
    /\ c # << >>
    /\ c[1] \notin Whitespace /\ c[Len(c)] \notin Whitespace
    /\ \E i \in 1..Len(t) :
          /\ i + Len(c) - 1 <= Len(t)
          /\ SubSeq(t, i, i + Len(c) - 1) = c
          /\ AllWhitespace(SubSeq(t, 1, i - 1))
          /\ AllWhitespace(SubSeq(t, i + Len(c), Len(t)))

\* C12, amended: the stored response text is the text blocks of the reply
\* joined by line breaks with the leading and trailing whitespace of the
\* joined text removed, and the placeholder when nothing but whitespace is
\* left, as when the reply has no text block.
C12_ResponseIsTrimmedJoin ==
    [][(drv.pc = "respond" /\ drv'.pc = "record") =>
        LET joined == JoinLines(TextChunks(drv.result.message)) IN
        \E c \in {ResponseText(drv.result)} :
            /\ StoresResponse(c)
            /\ IF AllWhitespace(joined) THEN c = NoResponse ELSE IsTrimOf(c, joined)]_vars

\* two text blocks with outer whitespace were stored as one trimmed text
C12_Witness ==
    /\ drv.pc = "record"
    /\ drv.result.message = << TextBlock(<<" ", "b">>), TextBlock(<<"c", "\n">>) >>
    /\ Last(DiskHistory(drv.session_id)).content = <<"b", "\n", "c">>

\* C13: the documents a turn leaves on disk and the value it returns are
\* given by the documents before the step, the user input, the clock and the
\* reply (or failure) alone, whether the verbose flag is on or off.
C13_VerboseLeavesNoTrace ==
    [][\A id \in {drv.session_id} :
        /\ (drv.pc = "input" /\ drv'.pc = "invoke") =>
              /\ DiskHistory(id)' = Append(DiskHistory(id), drv'.user_entry)
              /\ UNCHANGED metaf
        /\ (drv.pc = "invoke" /\ drv'.pc \in {"respond", "failed"}) =>
              UNCHANGED <<histf, metaf>>
        /\ FailedStep =>
              /\ UNCHANGED histf
              /\ DiskMetadata(id)' =
                    MSet(DiskMetadata(id), "errors",
                         Append(MList(DiskMetadata(id), "errors"), ErrorEntry(drv)))
              /\ IF drv.single THEN drv'.status = "1" ELSE drv'.response = None
        /\ (drv.pc = "respond" /\ drv'.pc = "record") =>
              /\ \E ts \in Times :
                    DiskHistory(id)' =
                        Append(DiskHistory(id),
                               Entry("assistant", ResponseText(drv.result), ts))
              /\ UNCHANGED metaf
        /\ RecordStep =>
              /\ UNCHANGED histf
              /\ DiskMetadata(id)' =
                    record_turn_metadata(DiskMetadata(id), drv.result, drv.user_entry,
                                         Last(DiskHistory(id)))
              /\ IF drv.single THEN drv'.status = "0"
                 ELSE drv'.response = Some(Last(DiskHistory(id)).content)
      ]_vars

\* a verbose turn has printed its token counts and stop reason and recorded
\* the usage
C13_Witness ==
    /\ drv.pc = "input" /\ drv.verbose
    /\ Len(drv.printed) = 2
    /\ Last(MList(DiskMetadata(drv.session_id), "turns")).usage # None

\* the events of the reply held by the driver
ReplyEvents == collect_tool_events_from_messages(<< drv.result.message >>)
\* the invocation blocks of the reply that have a result with their identifier
AnsweredUses ==
    SelectSeq(drv.result.message,
              LAMBDA b : /\ b.kind = "toolUse" /\ HasInvocationId(b)
                         /\ \E i \in DOMAIN drv.result.message :
                               /\ drv.result.message[i].kind = "toolResult"
                               /\ drv.result.message[i].toolUseId = b.toolUseId)

\* C14: the reply's events are one per answered invocation, with its name,
\* arguments and the result's status, none for an unanswered invocation, and
\* the step that records the turn stores them in the turn's log entry.
C14_ToolEventsRecorded ==
    /\ [](/\ Len(ReplyEvents) = Len(AnsweredUses)
          /\ \A i \in DOMAIN ReplyEvents :
                /\ ReplyEvents[i].name = AnsweredUses[i].name
                /\ ReplyEvents[i].arguments = AnsweredUses[i].input
                /\ \E j \in DOMAIN drv.result.message :
                      /\ drv.result.message[j].kind = "toolResult"
                      /\ drv.result.message[j].toolUseId = AnsweredUses[i].toolUseId
                      /\ drv.result.message[j].status = ReplyEvents[i].status)
    /\ [][(RecordStep /\ ReplyEvents # << >>) =>
            \A id \in {drv.session_id} :
                LET entry == Last(MList(DiskMetadata(id)', "turns")) IN
                /\ "tools_used" \in DOMAIN entry
                /\ entry.tools_used = ReplyEvents]_vars

\* C15: the summary of every event is the result's text when that has at most
\* 200 characters, else its first 200 characters and the ellipsis marker, and
\* is never longer than 203 characters.
C15_SummaryBounded ==
    \A i \in DOMAIN ReplyEvents :
        LET use == AnsweredUses[i]
            result == Head(ResultsOf(use, drv.result.message))
            text == Concat(TextChunks(result.content))
            summary == ReplyEvents[i].result_summary
        IN  /\ Len(summary) <= 203
            /\ Len(text) <= 200 => summary = text
            /\ Len(text) > 200 =>
                  /\ Len(summary) = 203
                  /\ SubSeq(summary, 1, 200) = SubSeq(text, 1, 200)
                  /\ SubSeq(summary, 201, 203) = ELLIPSIS

\* a reply with a 201 character result, one answered and one unanswered
\* invocation
C15_Witness ==
    /\ drv.pc = "record"
    /\ Len(drv.result.message) = 3
    /\ Len(ReplyEvents) = 1
    /\ Len(Concat(TextChunks(Head(ResultsOf(AnsweredUses[1], drv.result.message)).content))) = 201
    /\ Len(ReplyEvents[1].result_summary) = 203

\* ------------------------------------------------------------------------
\* Properties of the event logs and the Topic Ledger
\* ------------------------------------------------------------------------
OtherLogsUnchanged(id, n) ==
    \A i \in IDs, f \in LogFiles : <<i, f>> # <<id, n>> => logf'[i][f] = logf[i][f]
ValidEntry(e) ==
    /\ e.topic \in CanonicalTopics
    /\ e.score.type = "int" /\ e.score.value \in 0..100

\* C16: reading a log returns its records in append order: a successful
\* append of record r to a log that reads [r1..rn] makes it read [r1..rn, r]
\* and leaves every other log of every session as it was, and no ledger step
\* changes a log in any other way.
C16_LogAppendOnly ==
    [][/\ \A id \in IDs, topic \in TopicInputs, value \in FactValues :
            (append_information_record(id, topic, value, now) /\ ret'.status = "ok") =>
                /\ read_jsonl(id, INFORMATION_FILENAME)'.status = "ok"
                /\ read_jsonl(id, INFORMATION_FILENAME)'.value =
                      Append(read_jsonl(id, INFORMATION_FILENAME).value,
                             InformationRecord(id, topic, value, None, None, now))
                /\ OtherLogsUnchanged(id, INFORMATION_FILENAME)
       /\ \A id \in IDs, scores \in LedgerBatches :
            (append_completeness_snapshot(id, scores, now) /\ ret'.status = "ok") =>
                /\ read_jsonl(id, COMPLETENESS_FILENAME)'.value =
                      Append(read_jsonl(id, COMPLETENESS_FILENAME).value,
                             CompletenessSnapshot(id, scores, now))
                /\ OtherLogsUnchanged(id, COMPLETENESS_FILENAME)
       /\ \A id \in IDs, f \in LogFiles :
            IsPrefix(read_jsonl(id, f).value, read_jsonl(id, f)'.value)
      ]_vars

\* two facts in one log, in the order they were appended
C16_Witness ==
    \E id \in IDs :
        LET records == read_jsonl(id, INFORMATION_FILENAME).value IN
        /\ Len(records) = 2
        /\ records[1].topic = "estate_planning"
        /\ records[2].topic = "income_cash_flow"
        /\ records[2].value = "Retire at 55"

\* C17: on an id without a session the log operations of the store and the
\* ledger reads fail with NotFound, and a failed append creates nothing.
C17_AbsentIdLogNotFound ==
    /\ [][(ret'.op = "append_jsonl" /\ HasNoSession(ret'.id)) =>
            /\ ret'.status = "SessionNotFoundError"
            /\ UNCHANGED storeVars]_vars
    /\ [](\A id \in IDs, f \in LogFiles : HasNoSession(id) =>
            /\ read_jsonl(id, f).status = "SessionNotFoundError"
            /\ read_jsonl_helper(id, f).status = "SessionNotFoundError")

\* what makes an entry of a batch invalid
SomeInvalid(scores) == \E i \in DOMAIN scores : ~ValidEntry(scores[i])

\* C18: a completeness batch with an invalid entry at any position raises a
\* validation error and changes nothing; a valid batch appends exactly one
\* snapshot holding all its entries in batch order.
C18_BatchAllOrNothing ==
    [][\A id \in IDs, scores \in Batches :
        append_completeness_snapshot(id, scores, now) =>
            IF SomeInvalid(scores)
            THEN ret'.status = "ValueError" /\ UNCHANGED storeVars
            ELSE IF id \in dirs
            THEN /\ ret'.status = "ok"
                 /\ LogLines(id, COMPLETENESS_FILENAME)' =
                       Append(LogLines(id, COMPLETENESS_FILENAME),
                              CompletenessSnapshot(id, scores, now))
                 /\ OtherLogsUnchanged(id, COMPLETENESS_FILENAME)
            ELSE ret'.status = "SessionNotFoundError" /\ UNCHANGED storeVars
      ]_vars

\* a batch was rejected on a session whose log already holds a snapshot of
\* two entries
C18_Witness ==
    /\ ret.op = "append_completeness_snapshot" /\ ret.status = "ValueError"
    /\ ret.id \in dirs
    /\ Len(LogLines(ret.id, COMPLETENESS_FILENAME)) = 1
    /\ Len(LogLines(ret.id, COMPLETENESS_FILENAME)[1].scores) = 2

LatestAfter(id) ==
    compute_latest_scores(read_completeness_snapshots(id).value)

\* C19 as claimed: after a valid batch is appended, the current completeness
\* gives s for t for every entry (t, s) of the batch.
C19_LatestIsAppended ==
    [][\A id \in IDs, scores \in Batches :
        (append_completeness_snapshot(id, scores, now) /\ ret'.status = "ok") =>
            \A i \in DOMAIN scores :
                /\ LatestAfter(id)'[scores[i].topic] # None
                /\ LatestAfter(id)'[scores[i].topic][1].score = scores[i].score
      ]_vars

\* C19, amended: after a valid batch is appended, the current completeness
\* gives s for t for every entry (t, s) of the batch that no later entry of the
\* same batch has the topic of.
C19_LatestIsLastOfBatch ==
    [][\A id \in IDs, scores \in Batches :
        (append_completeness_snapshot(id, scores, now) /\ ret'.status = "ok") =>
            \A i \in DOMAIN scores :
                (\A j \in DOMAIN scores : j > i => scores[j].topic # scores[i].topic) =>
                    /\ LatestAfter(id)'[scores[i].topic] # None
                    /\ LatestAfter(id)'[scores[i].topic][1].score = scores[i].score
      ]_vars

\* a later snapshot has replaced the score an earlier one gave for a topic
C19_Witness ==
    \E id \in IDs :
        LET snapshots == LogLines(id, COMPLETENESS_FILENAME) IN
        /\ Len(snapshots) = 2
        /\ snapshots[1].scores = << ScoreEntry("income_cash_flow", IntScore(0), None),
                                    ScoreEntry("estate_planning", IntScore(100), None) >>
        /\ snapshots[2].scores = << ScoreEntry("income_cash_flow", IntScore(100), None) >>
        /\ LatestAfter(id)["income_cash_flow"][1].score = IntScore(100)
        /\ LatestAfter(id)["estate_planning"][1].score = IntScore(100)

\* C20: every record in a ledger carries one of the 8 canonical topics, and
\* an append with another topic raises a validation error and writes nothing.
C20_CanonicalTopicsOnly ==
    /\ Cardinality(CanonicalTopics) = 8
    /\ [](\A id \in IDs :
            /\ \A i \in DOMAIN LogLines(id, INFORMATION_FILENAME) :
                  LogLines(id, INFORMATION_FILENAME)[i].topic \in CanonicalTopics
            /\ \A i \in DOMAIN LogLines(id, COMPLETENESS_FILENAME) :
                  \A j \in DOMAIN LogLines(id, COMPLETENESS_FILENAME)[i].scores :
                      LogLines(id, COMPLETENESS_FILENAME)[i].scores[j].topic
                          \in CanonicalTopics)
    /\ [][/\ \A id \in IDs, topic \in TopicInputs \ CanonicalTopics, value \in FactValues :
                append_information_record(id, topic, value, now) =>
                    ret'.status = "ValueError" /\ UNCHANGED storeVars
          /\ \A id \in IDs, scores \in LedgerBatches :
                (append_completeness_snapshot(id, scores, now)
                    /\ \E i \in DOMAIN scores : scores[i].topic \notin CanonicalTopics) =>
                    ret'.status = "ValueError" /\ UNCHANGED storeVars
          ]_vars

\* a fact with another topic was rejected on a session whose log holds a
\* fact with a canonical topic
C20_Witness ==
    /\ ret.op = "append_information_record" /\ ret.status = "ValueError"
    /\ ret.id \in dirs
    /\ Len(LogLines(ret.id, INFORMATION_FILENAME)) = 1
    /\ LogLines(ret.id, INFORMATION_FILENAME)[1].topic = "estate_planning"

\* C21: every record of an information ledger has a confidence within [0,1]
\* (0..10 tenths): a fact with a confidence outside the range, given to the
\* information tool or to append_information_record for an existing session,
\* raises a validation error and leaves the ledger unchanged.
C21_ConfidenceInRange ==
    /\ [](\A id \in IDs : \A i \in DOMAIN LogLines(id, INFORMATION_FILENAME) :
            LogLines(id, INFORMATION_FILENAME)[i].confidence \in 0..10)
    /\ [][\A id \in IDs, topic \in TopicInputs, value \in FactValues :
            \A c \in Confidences \ (0..10) :
                (/\ session_exists(id)
                 /\ \/ information(id, topic, value, c, now)
                    \/ append_information_record_confidence(id, topic, value, c, now)) =>
                    ret'.status = "ValueError" /\ UNCHANGED storeVars
         ]_vars

\* ------------------------------------------------------------------------
\* Properties of the sliding window
\* ------------------------------------------------------------------------
Min(a, b) == IF a <= b THEN a ELSE b

\* C22: for a history of length n, a window size w > 0 and truncate = true
\* the prepared view has length min(n, w) and is the last min(n, w) entries of
\* the history in their order.
C22_ViewIsLastEntries ==
    (ret.op = "prepare_messages" /\ ret.window_size > 0 /\ ret.should_truncate_results) =>
        LET n == Len(ret.history)
            k == Min(n, ret.window_size)
        IN  /\ Len(ret.value) = k
            /\ \A i \in 1..k : ret.value[i] = ret.history[n - k + i]

\* the history [user:hi, assistant:hello, user:next] seen through a window of 2
C22_Witness ==
    /\ ret.op = "prepare_messages"
    /\ ret.window_size = 2 /\ ret.should_truncate_results
    /\ ret.history = << Entry("user", "hi", 0), Entry("assistant", "hello", 0),
                        Entry("user", "next", 0) >>
    /\ ret.value = << Entry("assistant", "hello", 0), Entry("user", "next", 0) >>

\* C23: with truncate = false or a window size <= 0 the prepared view is the
\* whole history, the empty one included; and for every window size and flag
\* the window function applied to its own output returns that output.
C23_ViewIsHistoryAndIdempotent ==
    /\ (ret.op = "prepare_messages"
            /\ (~ret.should_truncate_results \/ ret.window_size <= 0)) =>
        ret.value = ret.history
    /\ ret.op = "prepare_messages_again" => ret.value = ret.first

\* a history of three entries, a window of 1 and truncate = false: the view
\* of the view is still the three entries
C23_Witness ==
    /\ ret.op = "prepare_messages_again"
    /\ ret.window_size = 1 /\ ~ret.should_truncate_results
    /\ Len(ret.history) = 3
    /\ ret.first = ret.history /\ ret.value = ret.history

\* ------------------------------------------------------------------------
\* Properties of the documents
\* ------------------------------------------------------------------------
OthersUnchanged(f, id) == \A j \in IDs \ {id} : f'[j] = f[j]

\* C24: on an existing session write_history(id, H) makes read_history(id)
\* return H and write_metadata(id, M) makes read_metadata(id) return M,
\* whatever the document held before; the write changes neither the other
\* document of the session, nor a ledger, nor the index, nor a document of
\* another session.
C24_WriteReadRoundTrip ==
    [][/\ \A id \in IDs, h \in {EmptyHistory, SampleHistory} :
            (session_exists(id) /\ write_history(id, h)) =>
                /\ read_history(id)' = Returned("ok", h)
                /\ OthersUnchanged(histf, id)
                /\ UNCHANGED <<metaf, logf, index, dirs>>
       /\ \A id \in IDs, data \in {EmptyMeta, SampleMeta} :
            (session_exists(id) /\ write_metadata(id, data)) =>
                /\ read_metadata(id)' = Returned("ok", data)
                /\ OthersUnchanged(metaf, id)
                /\ UNCHANGED <<histf, logf, index, dirs>>
      ]_vars

\* a history was written over an empty one and the metadata of the session,
\* written before, is still what it was
C24_Witness ==
    /\ ret.op = "write_history" /\ ret.status = "ok"
    /\ ret.id \in IndexIds(index)
    /\ read_history(ret.id) = Returned("ok", SampleHistory)
    /\ read_metadata(ret.id) = Returned("ok", SampleMeta)

\* C25: a document write is one atomic replace: whatever step the driver is
\* killed in, a write of a document included, every document on disk (index,
\* history, metadata) is afterwards the complete document it was before the
\* step or the complete document the step was writing, so a reader never
\* meets an empty or partly written one.
C25_WritesAreAtomic ==
    [][(Killed(drv') /\ ~Killed(drv)) =>
        /\ index' = index
        /\ \A id \in IDs :
            /\ metaf'[id] = metaf[id]
            /\ \/ histf'[id] = histf[id]
               \/ /\ id = drv.session_id
                  /\ FileExists(histf[id]) /\ FileExists(histf'[id])
                  /\ Len(DiskHistory(id)') = Len(DiskHistory(id)) + 1
                  /\ IsPrefix(DiskHistory(id), DiskHistory(id)')
      ]_vars

\* C26: when two drivers have run their turns on the same session, the
\* history on disk is the complete history one of them holds in memory (the
\* one that wrote last), never a mixture of the two.
C26_LastWriteWins ==
    (\A p \in Procs : pc[p] = "done") =>
        \A id \in {loc[p].id : p \in Procs} :
            (\A p \in Procs : loc[p].id = id) =>
                \E p \in Procs : read_history(id) = Returned("ok", loc[p].history)

\* ------------------------------------------------------------------------
\* Properties of the monitors
\* ------------------------------------------------------------------------
MonitorStep == pc'[Monitor] # pc[Monitor]

\* C27: a monitor writes nothing from start-up to exit: none of its steps
\* changes a document of the store (index, history, metadata, ledgers), so
\* the store is what the driver alone made it.
C27_MonitorReadOnly ==
    [][MonitorStep => UNCHANGED storeVars]_vars

\* C28: a monitor survives what a concurrent driver leaves on disk: a poll
\* that meets a ledger line written in part, or a session whose files are
\* gone, does not end the monitor; the only ways out of the polling loop are
\* the exit statuses 0 and 1.
C28_MonitorSurvivesReads ==
    pc[Monitor] = "exited" => loc[Monitor].status \in {"0", "1"}

MonitorRunning == pc[Monitor] \in {"poll", "sleep", "prompt"}
\* the screen shows what the ledger of the monitored session holds now
ScreenFresh ==
    /\ pc[Monitor] \in {"sleep", "prompt"}
    /\ \A read \in {MonitorRead(loc[Monitor].op, loc[Monitor].id)} :
        /\ read.status = "ok"
        /\ loc[Monitor].shown =
              IF read.value = << >> THEN Awaiting
              ELSE IF loc[Monitor].op = "completeness"
              THEN ScoreLines(compute_latest_scores(read.value))
              ELSE render_grouped_records(read.value)

\* C29: every wait of the polling loop ends after the poll interval at the
\* latest: while the monitor is in its loop and no input of the user makes it
\* leave or pause, it comes again and again to a screen that shows what the
\* ledger holds at that moment.
C29_MonitorRefreshes ==
    [](MonitorRunning => <>(ScreenFresh \/ ~MonitorRunning))

\* the completeness monitor shows the scores of the second of two snapshots
C29_Witness ==
    /\ loc[Monitor].op = "completeness" /\ ScreenFresh
    /\ MonitorRead("completeness", loc[Monitor].id).status = "ok"
    /\ Len(read_completeness_snapshots(loc[Monitor].id).value) = 2
    /\ loc[Monitor].shown[1].score = Some(IntScore(100))
    /\ loc[Monitor].shown[8].score = Some(IntScore(100))
    /\ read_completeness_snapshots(loc[Monitor].id).value[1].scores[1].score = IntScore(0)

\* the monitor is in a wait of its loop in which the user can type: the wait
\* for a selection, or the sleep of a pass that found nothing to read input
\* for (not the short sleep that follows a message about the last input)
WaitsForUser ==
    \/ pc[Monitor] = "prompt"
    \/ /\ pc[Monitor] = "sleep"
       /\ \/ loc[Monitor].shown = Awaiting
          \/ loc[Monitor].shown = << >>
          \/ "message" \notin DOMAIN loc[Monitor].shown[1]

\* C30: in every wait of the polling loop, with data in the ledger or
\* without, a line the user has typed is handled when the wait ends: a quit
\* command makes the monitor exit with status 0, the number of a topic 1..8
\* that has a prepared prompt shows that prompt and pauses until the user
\* acknowledges, any other line changes nothing in the store and polling
\* goes on.
C30_InputHandled ==
    [][\A selection \in TypedLines :
        (MonitorStep /\ WaitsForUser /\ loc[Terminal].line = Some(selection)) =>
            /\ loc'[Terminal].line = None
            /\ UNCHANGED storeVars
            /\ IF IsQuit(selection)
               THEN pc'[Monitor] = "exited" /\ loc'[Monitor].status = "0"
               ELSE IF /\ IsDigit(selection) /\ IntOf(selection) \in 1..8
                       /\ CANONICAL_TOPICS[IntOf(selection)] \in loc[Monitor].prompts
               THEN /\ pc'[Monitor] = "pause"
                    /\ loc'[Monitor].shown = PromptShown(CANONICAL_TOPICS[IntOf(selection)])
               ELSE pc'[Monitor] \in {"poll", "sleep"}
      ]_vars

\* ------------------------------------------------------------------------
\* Properties of the driver's start-up
\* ------------------------------------------------------------------------
\* the command line is one that the validation of main rejects
Rejected(a) ==
    \/ parse_bool(a.should_truncate_results).status # "ok"
    \/ a.system_prompt # None /\ a.system_prompt_file # None

\* C31: a driver invocation whose arguments fail validation (a truncate flag
\* that is no boolean word, or both an inline and a file system prompt) ends
\* with status 1 and has written nothing: index, session directories,
\* histories and metadata are what they were when the invocation began.
C31_RejectedWritesNothing ==
    [][(Parsed /\ Rejected(args) /\ drv.pc # "stopped" /\ drv'.pc = "stopped") =>
            /\ drv'.status = "1"
            /\ StoreNow' = loc[Invoker].before
      ]_vars

\* the driver is started with no session id, no new-session flag and no
\* ambient session id
Unnamed(a) == ~a.new_session /\ a.session = None /\ a.env = None

\* C32: started with neither a session id nor the new-session flag and with
\* no ambient session id, while the store marks a session as current,
\* resolve_session returns that session and creates none.
C32_UsesCurrentSession ==
    [][(StartSession /\ Unnamed(args) /\ get_current_session # << >>) =>
            /\ drv'.pc = "config"
            /\ drv'.session_id = get_current_session[1].id
            /\ dirs' = dirs
            /\ IndexIds(index') = IndexIds(index)
      ]_vars

\* the id a command line names, if it names one
Requested(a) == IF a.session # None THEN a.session ELSE a.env

C34_AbsentIdLeavesIndex ==
    [][\A id \in IDs : id \notin IndexIds(index) =>
        /\ mark_current(id) =>
                ret'.status = "SessionNotFoundError" /\ index' = index
        /\ \A d \in Descriptions :
                update_description(id, d) =>
                    ret'.status = "SessionNotFoundError" /\ index' = index
      ]_vars

\* markCurrent has failed on an id while another session is the current one
C34_Witness ==
    /\ ret.op = "mark_current" /\ ret.status = "SessionNotFoundError"
    /\ ret.id \notin IndexIds(index)
    /\ \E i \in DOMAIN index : index[i].is_current

\* C35: when two processes have each run index-modifying operations
\* (create, markCurrent, updateDescription, delete) concurrently and both
\* have finished, the index reflects all of them: every session created has
\* an index entry and every deleted session has none.
C35_IndexReflectsBoth ==
    (\A p \in Procs : pc[p] = "idle") =>
        /\ \A id \in dirs : id \in IndexIds(index)
        /\ \A id \in issued \ dirs : id \notin IndexIds(index)

\* C36: once delete(id) has succeeded, exists(id) is false in every later
\* state, whatever a driver that had loaded the session does afterwards: the
\* directory of a deleted session never comes back.
C36_DeletedStaysDeleted ==
    [][\A id \in issued \ dirs : id \notin dirs']_vars

\* C37: create publishes a session in the index only after its directory,
\* its history and its metadata exist: while no process deletes a session,
\* in every state, the intermediate states of a create included, every id
\* that list() returns has a directory and a history and a metadata document
\* that read without error.
C37_ListedSessionsAreComplete ==
    \A i \in DOMAIN list_sessions :
        /\ session_exists(list_sessions[i].id)
        /\ read_history(list_sessions[i].id).status = "ok"
        /\ read_metadata(list_sessions[i].id).status = "ok"

\* a create is about to publish its session while the index lists another
C37_Witness ==
    \E p \in Procs :
        /\ pc[p] = "create_write"
        /\ Len(index) = 1
        /\ loc[p].id \notin IndexIds(index)
        /\ read_history(loc[p].id).status = "ok"
        /\ read_metadata(loc[p].id).status = "ok"

CountRole(h, role) == Len(SelectSeq(h, LAMBDA e : e.role = role))

\* C38: for a session whose turns are all run by the driver, over any number
\* of driver runs: after every completed turn the user entries of the history
\* on disk are as many as the entries of the turn log plus those of the error
\* log in the metadata on disk; and in every state the persisted turn log has
\* no more entries than the persisted history has assistant entries.
C38_TurnLogMatchesHistory ==
    [][/\ (FailedStep \/ RecordStep) =>
            \A id \in {drv.session_id} :
                CountRole(DiskHistory(id)', "user") =
                    Len(MList(DiskMetadata(id)', "turns"))
                    + Len(MList(DiskMetadata(id)', "errors"))
       /\ \A id \in IDs :
            (FileExists(histf'[id]) /\ FileExists(metaf'[id])) =>
                Len(MList(DiskMetadata(id)', "turns"))
                    <= CountRole(DiskHistory(id)', "assistant")
      ]_vars

\* what a given override leaves of a base value
Overridden(override, base) == IF override # None THEN override[1] ELSE base

LatestSystemText(h) ==
    LET systems == SelectSeq(h, LAMBDA e : e.role = "system")
    IN  IF systems = << >> THEN None ELSE Some(systems[Len(systems)].content)

\* the prompt a command line supplies: text, source and path
Supplied(a) ==
    IF a.system_prompt_file # None
    THEN [text |-> PromptFileText, source |-> "file", path |-> Some(PromptFilePath)]
    ELSE [text |-> a.system_prompt[1], source |-> "inline", path |-> None]

\* the provenance recorded in the metadata is that of the prompt
Recorded(m, prompt) ==
    /\ MGet(m, "system_prompt_text") = Some(prompt.text)
    /\ MGet(m, "system_prompt_source") = Some(prompt.source)
    /\ MHas(m, "system_prompt_file_path")
    /\ m["system_prompt_file_path"] = prompt.path

====
